---- MODULE Spec2Model ----
(***************************************************************************)
(* Verification model of the insta-story scraper: the dedup ledger         *)
(* (StoryTracker), the media reconciliation pipeline (processStory), the   *)
(* story walker with its network interceptor (extractStoryDataFromPage)    *)
(* and the run that ties them together (main).                             *)
(***************************************************************************)
EXTENDS Integers, Sequences, FiniteSets, TLC

\* ------------------------------------------------------------------------
\* Bounds of the model
\* ------------------------------------------------------------------------
\* longest batch handed to a ledger operation
MaxBatch == 3
\* pipeline runs of one process (each run draws a fresh uuid)
MaxRuns == 3
\* stories the viewer has to show
MaxStories == 3

\* ------------------------------------------------------------------------
\* Values
\* ------------------------------------------------------------------------
\* JavaScript null / undefined
NULL == "null"

VARIABLES
  \* --- story_tracker/stories_<username>.json and the file system under it
  ledgerFile,     \* the ledger file: state missing / ok / corrupt, its content
  readFault,      \* fs.readFile of the ledger currently fails (EIO, EACCES, ...)
  writeFault,     \* fs.writeFile currently fails: "none", "open", "partial"
  \* --- the last StoryTracker call and what it returned
  lastOp,         \* name of the last StoryTracker method called
  opArg,          \* its argument (a list of stories)
  opRes,          \* its return value
  opView,         \* ledger file and read fault as the last call left them
  sameLedger,     \* the last call started from what the call before it left
  \* --- the network interceptor of the walker
  listening,      \* the page.on('request') listener is registered
  capturedVideos, \* Set of every video URL captured in this walk
  capturedAudios, \* Set of every audio URL captured in this walk
  currentStoryMedia, \* the slot { video, audio }
  capturedAt,     \* the story the page was on when each URL was captured
  \* --- processStory and the two directories it works in
  pPc,            \* position of the running processStory call
  pVideoUrl,      \* its videoUrl argument
  pAudioUrl,      \* its audioUrl argument
  pVideoId,       \* the uuid it drew
  pLog,           \* the steps it has taken, in order
  pResult,        \* what it returned
  runs,           \* uuids drawn so far
  tempFiles,      \* files in temp_media: <<uuid, "video" | "audio">>
  videoStore,     \* files in video_stories: <<uuid, content>>
  \* --- the browser page the walker drives
  script,         \* the story ids the viewer shows, in order
  pos,            \* the story shown now; past the last one the viewer is closed
  pending,        \* media requests the page has still to send
  \* --- extractStoryDataFromPage
  wPc,            \* position of the walk
  stories,        \* the batch assembled so far
  storyIndex,
  noContentCount,
  lastUrl,
  seenPks,        \* this.seenPks
  storyPk,        \* id read from the location in this cycle
  content,        \* what page.evaluate returned in this cycle
  videoUrl,       \* snapshot of the slot taken in this cycle
  audioUrl,
  wResult,        \* what the walk returned
  \* --- main
  mPc,            \* position of main
  allStories,     \* what extractStories returned
  newStories,     \* what filterProcessedStories returned
  outputFiles,    \* story lists of the stories_<user>_<timestamp>.json files
  apiReceived,    \* story lists the API has accepted
  \* --- the media server (server.js) and the classifier called on its own
  sReq,           \* the last request the server has handled
  sRes,           \* its response
  cUrl,           \* the URL handed to isAudioOnly
  cKind,          \* what isAudioOnly made of it
  \* --- a fetch the server is in the middle of
  fPc,            \* position of its handler
  fReq,           \* the request, and the stat.size once it is read
  fRes,           \* its response
  \* --- login
  lPc,            \* position of login
  gotoCalls,      \* page.goto calls made
  gotoLoaded,     \* the flag loaded of login
  isLoggedIn,     \* this.isLoggedIn
  lPage,          \* what the page shows once loaded, and config.forceManualLogin
  lOut            \* what login returned or that it threw

trackerVars == <<ledgerFile, readFault, writeFault>>
callVars == <<lastOp, opArg, opRes, opView, sameLedger>>
listenerVars == <<listening, capturedVideos, capturedAudios, currentStoryMedia,
                  capturedAt>>
pipelineVars == <<pPc, pVideoUrl, pAudioUrl, pVideoId, pLog, pResult, runs,
                  tempFiles, videoStore>>
browserVars == <<script, pos, pending>>
walkerVars == <<wPc, stories, storyIndex, noContentCount, lastUrl, seenPks, storyPk,
                content, videoUrl, audioUrl, wResult>>
mainVars == <<mPc, allStories, newStories, outputFiles, apiReceived>>
raceVars == <<fPc, fReq, fRes>>
loginVars == <<lPc, gotoCalls, gotoLoaded, isLoggedIn, lPage, lOut>>
serviceVars == <<sReq, sRes, cUrl, cKind, raceVars, loginVars>>
aroundPipeline == <<trackerVars, callVars, browserVars, walkerVars, mainVars, serviceVars>>
aroundTracker == <<listenerVars, pipelineVars, browserVars, walkerVars, mainVars,
                   serviceVars>>
vars == <<ledgerFile, readFault, writeFault, lastOp, opArg, opRes, opView, sameLedger,
          listening, capturedVideos, capturedAudios, currentStoryMedia, capturedAt,
          pPc, pVideoUrl, pAudioUrl, pVideoId, pLog, pResult, runs,
          tempFiles, videoStore, script, pos, pending,
          wPc, stories, storyIndex, noContentCount, lastUrl, seenPks, storyPk,
          content, videoUrl, audioUrl, wResult,
          mPc, allStories, newStories, outputFiles, apiReceived,
          sReq, sRes, cUrl, cKind, fPc, fReq, fRes,
          lPc, gotoCalls, gotoLoaded, isLoggedIn, lPage, lOut>>

\* ------------------------------------------------------------------------
\* Sequence helpers
\* ------------------------------------------------------------------------
Range(s) == {s[i] : i \in 1..Len(s)}

SeqsUpTo(S, n) == UNION {[1..k -> S] : k \in 0..n}

NoDup(s) == \A i, j \in 1..Len(s) : s[i] = s[j] => i = j

\* ------------------------------------------------------------------------
\* Stories as the ledger sees them
\* ------------------------------------------------------------------------
\* what page.evaluate returns
Content(isVideo, caption, link, posterUrl) ==
  [isVideo |-> isVideo, caption |-> caption, link |-> link, posterUrl |-> posterUrl]

NoContent == Content(FALSE, NULL, NULL, NULL)

\* `${SERVER_URL}${processResult.url}`
ServedUrl(url) ==
  CASE url = "/videos/uuid1.mp4" -> "http://localhost:3000/videos/uuid1.mp4"
    [] url = "/videos/uuid2.mp4" -> "http://localhost:3000/videos/uuid2.mp4"
    [] url = "/videos/uuid3.mp4" -> "http://localhost:3000/videos/uuid3.mp4"
    [] OTHER -> "http://localhost:3000/videos/uuid4.mp4"

\* the object pushed for a video story (username, timestamps and permalink,
\* which nothing reads, are left out)
VideoStoryItem(pk, cont, vUrl, aUrl, processResult) ==
  [ig_pk |-> pk, caption |-> cont.caption, media_type |-> 2, is_video |-> TRUE,
   media_url |-> IF processResult.success THEN ServedUrl(processResult.url) ELSE vUrl,
   original_video_url |-> vUrl, original_audio_url |-> aUrl,
   local_video_id |-> IF processResult.success THEN processResult.videoId ELSE NULL,
   thumbnail_url |-> IF cont.posterUrl # NULL THEN cont.posterUrl ELSE vUrl,
   story_link |-> cont.link]

\* the object pushed for an image story; it has no original_* and no
\* local_video_id (undefined, written NULL here)
ImageStoryItem(pk, cont, imageUrl) ==
  [ig_pk |-> pk, caption |-> cont.caption, media_type |-> 1, is_video |-> FALSE,
   media_url |-> imageUrl,
   original_video_url |-> NULL, original_audio_url |-> NULL,
   local_video_id |-> NULL,
   thumbnail_url |-> imageUrl,
   story_link |-> cont.link]

\* stories handed to the ledger operations when they are exercised on
\* their own: with and without a platform id, sharing ids and media URLs
TrackerStories ==
  { ImageStoryItem("111", NoContent, "img1"),
    ImageStoryItem("111", NoContent, "img2"),
    ImageStoryItem(NULL, NoContent, "img1") }

TrackerBatches == SeqsUpTo(TrackerStories, MaxBatch)

\* a key that ignores the platform id
StoryKeyUrlOnly(story) == story.media_url

\* story.ig_pk || story.media_url
StoryKey(story) == IF story.ig_pk # NULL THEN story.ig_pk ELSE story.media_url

\* ------------------------------------------------------------------------
\* Media URLs
\* ------------------------------------------------------------------------
\* what the code looks at in a URL: the host, the extension, the /m78/ and
\* /m367/ path segments, whether new URL() accepts it, the efg query
\* parameter, the pieces of the encode_tag that matter to includes(), the
\* bytestart/byteend parameters and the URL that is left when these are
\* stripped.  efg is "absent" (no parameter, or an empty one), "garbage"
\* (JSON.parse throws), "json_null" (the JSON value null: reading
\* encode_tag throws), "json_numtag" (encode_tag is a number: toLowerCase
\* throws) or "json" (an object whose encode_tag is a string or missing)
Url(cdn, mp4, m78, m367, efg, tag, clean) ==
  [cdn |-> cdn, mp4 |-> mp4, m78 |-> m78, m367 |-> m367, parses |-> TRUE,
   efg |-> efg, tag |-> tag, clean |-> clean]

V111 == "https://x.fbcdn.net/m367/v111.mp4?efg=e30"
V222 == "https://x.fbcdn.net/m367/v222.mp4?efg=e30"
V222Range == "https://x.fbcdn.net/m367/v222.mp4?efg=e30&bytestart=0&byteend=99"
A222 == "https://x.fbcdn.net/m78/a222.mp4?efg=e30"

UrlTable ==
  [u \in {V111, V222, V222Range, A222} |->
     CASE u = V111 -> Url(TRUE, TRUE, FALSE, TRUE, "json", {}, V111)
       [] u = V222 -> Url(TRUE, TRUE, FALSE, TRUE, "json", {}, V222)
       [] u = V222Range -> Url(TRUE, TRUE, FALSE, TRUE, "json", {}, V222)
       [] OTHER -> Url(TRUE, TRUE, TRUE, FALSE, "json", {}, A222)]

\* String.prototype.toLowerCase on the pieces a tag is made of
Lower(piece) ==
  CASE piece = "AUDIO" -> "audio"
    [] piece = "AVC" -> "avc"
    [] OTHER -> piece

\* an includes() that looks at the tag as it was written
TagIncludesExact(tag, hint) == hint \in tag

\* tag.includes(hint), tag being the lower-cased encode_tag
TagIncludes(tag, hint) == \E piece \in tag : Lower(piece) = hint

\* a classifier that looks at the encode_tag before the path markers
AudioOnlyTagFirst(f) ==
  IF f.parses /\ f.efg = "json" /\ f.tag # {}
    THEN /\ TagIncludes(f.tag, "audio")
         /\ ~TagIncludes(f.tag, "vp9")
         /\ ~TagIncludes(f.tag, "avc")
    ELSE f.m78

\* the body of isAudioOnly on the features of its argument; every throw
\* inside it lands in the catch, which returns false
AudioOnlyOf(f) ==
  IF f.m78 THEN TRUE
  ELSE IF f.m367 THEN FALSE
  ELSE IF ~f.parses THEN FALSE
  ELSE IF f.efg # "json" THEN FALSE
  ELSE /\ TagIncludes(f.tag, "audio")
       /\ ~TagIncludes(f.tag, "vp9")
       /\ ~TagIncludes(f.tag, "avc")

\* isAudioOnly(url)
isAudioOnly(url) == AudioOnlyOf(UrlTable[url])

\* the three replace() calls of the listener
CleanUrl(url) == UrlTable[url].clean

\* ------------------------------------------------------------------------
\* Network interceptor: the page.on('request') callback
\* ------------------------------------------------------------------------
EmptySlot == [video |-> NULL, audio |-> NULL]

\* no URL captured yet
NowhereYet == [video |-> <<>>, audio |-> <<>>]

ListenerInit ==
  /\ listening = FALSE
  /\ capturedVideos = <<>>
  /\ capturedAudios = <<>>
  /\ currentStoryMedia = EmptySlot
  /\ capturedAt = NowhereYet

\* the callback: what it makes of the two Sets (kept in insertion order) and
\* of the slot when the page requests url
RequestListener(videos, audios, slot, url) ==
  IF UrlTable[url].cdn /\ UrlTable[url].mp4
    THEN LET cleanUrl == CleanUrl(url)
         IN IF isAudioOnly(cleanUrl)
              THEN IF cleanUrl \notin Range(audios)
                     THEN [videos |-> videos, audios |-> Append(audios, cleanUrl),
                           slot |-> [slot EXCEPT !.audio = cleanUrl]]
                     ELSE [videos |-> videos, audios |-> audios, slot |-> slot]
              ELSE IF cleanUrl \notin Range(videos)
                     THEN [videos |-> Append(videos, cleanUrl), audios |-> audios,
                           slot |-> [slot EXCEPT !.video = cleanUrl]]
                     ELSE [videos |-> videos, audios |-> audios, slot |-> slot]
    ELSE [videos |-> videos, audios |-> audios, slot |-> slot]

\* the page sends a request for url: the callback runs if it is registered;
\* capturedAt notes, next to every URL added to a Set, which story of the
\* viewer the page was on
OnRequest(url) ==
  IF listening
    THEN LET after == RequestListener(capturedVideos, capturedAudios,
                                      currentStoryMedia, url)
         IN /\ capturedVideos' = after.videos
            /\ capturedAudios' = after.audios
            /\ currentStoryMedia' = after.slot
            /\ capturedAt' =
                 [video |-> IF after.videos # capturedVideos
                              THEN Append(capturedAt.video, pos) ELSE capturedAt.video,
                  audio |-> IF after.audios # capturedAudios
                              THEN Append(capturedAt.audio, pos) ELSE capturedAt.audio]
    ELSE UNCHANGED <<capturedVideos, capturedAudios, currentStoryMedia, capturedAt>>

\* ------------------------------------------------------------------------
\* Media reconciliation pipeline: processStory
\* ------------------------------------------------------------------------
\* uuidv4() never repeats
Uuids == <<"uuid1", "uuid2", "uuid3", "uuid4">>

\* `/videos/${videoId}.mp4`
LocalUrl(id) ==
  CASE id = "uuid1" -> "/videos/uuid1.mp4"
    [] id = "uuid2" -> "/videos/uuid2.mp4"
    [] id = "uuid3" -> "/videos/uuid3.mp4"
    [] OTHER -> "/videos/uuid4.mp4"

NoResult == [success |-> FALSE, videoId |-> NULL, url |-> NULL, error |-> NULL]

PipelineInit ==
  /\ pPc = "idle"
  /\ pVideoUrl = NULL
  /\ pAudioUrl = NULL
  /\ pVideoId = NULL
  /\ pLog = <<>>
  /\ pResult = NoResult
  /\ runs = 0
  /\ tempFiles = {}
  /\ videoStore = {}

\* fs.unlink of a set of paths; a path that does not exist changes nothing
Unlink(files, paths) == files \ paths

\* files of the artifact store under a uuid
StoredUnder(id) == {f \in videoStore : f[1] = id}

\* processStory(videoUrl, audioUrl, page) up to the first download
ProcessStoryStart(vUrl, aUrl) ==
  /\ pPc' = "video"
  /\ pVideoUrl' = vUrl
  /\ pAudioUrl' = aUrl
  /\ pVideoId' = Uuids[runs + 1]
  /\ runs' = runs + 1
  /\ pLog' = <<>>
  /\ pResult' = NoResult
  /\ UNCHANGED <<tempFiles, videoStore>>

\* downloadFile(url, destination, page): the page fetches the URL (which the
\* listener sees like any other request); "ok" wrote the file, "nofetch"
\* failed before anything was written, "nowrite" failed while writing and
\* leaves a truncated file
DownloadOutcomes == {"ok", "nofetch", "nowrite"}

Downloaded(files, id, kind, outcome) ==
  IF outcome = "nofetch" THEN files ELSE files \cup {<<id, kind>>}

\* a check that lets a failed video download pass
AfterVideoUnchecked(outcome, aUrl) ==
  IF aUrl # NULL THEN "audio" ELSE "copy"

\* if (!videoDownloaded) throw ...; if (audioUrl) ... else ...
AfterVideo(outcome, aUrl) ==
  IF outcome = "ok"
    THEN IF aUrl # NULL THEN "audio" ELSE "copy"
    ELSE "catch"

\* a check that throws when the audio download fails
AfterAudioThrowing(outcome) == IF outcome = "ok" THEN "merge" ELSE "catch"

\* if (audioDownloaded) combine ... else copyFile ...
AfterAudio(outcome) == IF outcome = "ok" THEN "merge" ELSE "copy"

\* await downloadFile(videoUrl, videoPath, page) and the check of its result
DownloadVideo ==
  /\ pPc = "video"
  /\ \E outcome \in DownloadOutcomes :
       /\ tempFiles' = Downloaded(tempFiles, pVideoId, "video", outcome)
       /\ pLog' = Append(pLog, IF outcome = "ok" THEN "video_ok" ELSE "video_failed")
       /\ pPc' = AfterVideo(outcome, pAudioUrl)
  /\ OnRequest(pVideoUrl)
  /\ UNCHANGED <<pVideoUrl, pAudioUrl, pVideoId, pResult, runs, videoStore, listening>>
  /\ UNCHANGED aroundPipeline

\* await downloadFile(audioUrl, audioPath, page) and the check of its result
DownloadAudio ==
  /\ pPc = "audio"
  /\ \E outcome \in DownloadOutcomes :
       /\ tempFiles' = Downloaded(tempFiles, pVideoId, "audio", outcome)
       /\ pLog' = Append(pLog, IF outcome = "ok" THEN "audio_ok" ELSE "audio_failed")
       /\ pPc' = AfterAudio(outcome)
  /\ OnRequest(pAudioUrl)
  /\ UNCHANGED <<pVideoUrl, pAudioUrl, pVideoId, pResult, runs, videoStore, listening>>
  /\ UNCHANGED aroundPipeline

\* await combineVideoAudio(videoPath, audioPath, outputPath): ffmpeg exits 0
\* and has written the output, or exits non-zero (with or without a
\* partial output file) and the promise rejects
MergeOutcomes == {"exit0", "failed_no_output", "failed_partial_output"}

CombineVideoAudio ==
  /\ pPc = "merge"
  /\ \E outcome \in MergeOutcomes :
       CASE outcome = "exit0" ->
              /\ videoStore' = videoStore \cup {<<pVideoId, "merged">>}
              /\ pLog' = Append(pLog, "merge_ok")
              /\ pPc' = "cleanup"
         [] outcome = "failed_no_output" ->
              /\ videoStore' = videoStore
              /\ pLog' = Append(pLog, "merge_failed")
              /\ pPc' = "catch"
         [] OTHER ->
              /\ videoStore' = videoStore \cup {<<pVideoId, "partial">>}
              /\ pLog' = Append(pLog, "merge_failed")
              /\ pPc' = "catch"
  /\ UNCHANGED <<pVideoUrl, pAudioUrl, pVideoId, pResult, runs, tempFiles, listenerVars>>
  /\ UNCHANGED aroundPipeline

\* await fs.copyFile(videoPath, outputPath), on either video-only path
CopyVideoOnly ==
  /\ pPc = "copy"
  /\ videoStore' = videoStore \cup {<<pVideoId, "video_only">>}
  /\ pLog' = Append(pLog, "copy")
  /\ pPc' = "cleanup"
  /\ UNCHANGED <<pVideoUrl, pAudioUrl, pVideoId, pResult, runs, tempFiles, listenerVars>>
  /\ UNCHANGED aroundPipeline

\* a clean-up that forgets the audio file
TempAfterSuccessVideoOnly(files, id, aUrl) == Unlink(files, {<<id, "video">>})

\* the clean-up after the artifact is in place: unlink(videoPath), then
\* unlink(audioPath) if an audioUrl was given; errors are ignored
TempAfterSuccess(files, id, aUrl) ==
  IF aUrl # NULL
    THEN Unlink(Unlink(files, {<<id, "video">>}), {<<id, "audio">>})
    ELSE Unlink(files, {<<id, "video">>})

\* the clean-up and the return of the success path
ReturnSuccess ==
  /\ pPc = "cleanup"
  /\ tempFiles' = TempAfterSuccess(tempFiles, pVideoId, pAudioUrl)
  /\ pResult' = [success |-> TRUE, videoId |-> pVideoId,
                 url |-> LocalUrl(pVideoId), error |-> NULL]
  /\ pPc' = "returned"
  /\ UNCHANGED <<pVideoUrl, pAudioUrl, pVideoId, pLog, runs, videoStore, listenerVars>>
  /\ UNCHANGED aroundPipeline

\* the catch block: unlink of videoPath, audioPath and outputPath, each with
\* its own .catch, and the failure result
ReturnFailure ==
  /\ pPc = "catch"
  /\ tempFiles' = Unlink(tempFiles, {<<pVideoId, "video">>, <<pVideoId, "audio">>})
  /\ videoStore' = Unlink(videoStore, StoredUnder(pVideoId))
  /\ pResult' = [success |-> FALSE, videoId |-> NULL, url |-> NULL,
                 error |-> IF pLog[Len(pLog)] = "merge_failed"
                             THEN "ffmpeg failed"
                             ELSE "Failed to download video"]
  /\ pPc' = "returned"
  /\ UNCHANGED <<pVideoUrl, pAudioUrl, pVideoId, pLog, runs, listenerVars>>
  /\ UNCHANGED aroundPipeline

\* processStory called on its own, with every kind of argument
CallProcessStory ==
  /\ pPc \in {"idle", "returned"}
  /\ runs < MaxRuns
  /\ \E vUrl \in {V222}, aUrl \in {A222, NULL} :
       ProcessStoryStart(vUrl, aUrl)
  /\ UNCHANGED listenerVars
  /\ UNCHANGED aroundPipeline


\* ------------------------------------------------------------------------
\* StoryTracker
\* ------------------------------------------------------------------------
MissingFile == [state |-> "missing", processed_ids |-> <<>>, last_updated |-> NULL]
CorruptFile == [state |-> "corrupt", processed_ids |-> <<>>, last_updated |-> NULL]
OkFile(ids) == [state |-> "ok", processed_ids |-> ids, last_updated |-> "now"]

\* the tracker object load() returns when the read or the parse throws
EmptyTracker == [processed_ids |-> <<>>, last_updated |-> NULL]

\* a load whose default tracker is stamped
LoadFromStamped(file, rfault) ==
  IF rfault \/ file.state # "ok"
    THEN [processed_ids |-> <<>>, last_updated |-> "now"]
    ELSE [processed_ids |-> file.processed_ids, last_updated |-> file.last_updated]

\* load(): the parsed file, or an empty tracker on any error
LoadFrom(file, rfault) ==
  IF rfault \/ file.state # "ok"
    THEN EmptyTracker
    ELSE [processed_ids |-> file.processed_ids, last_updated |-> file.last_updated]

load == LoadFrom(ledgerFile, readFault)

\* getProcessedIds(): new Set(tracker.processed_ids || [])
ProcessedIdsOf(file, rfault) == Range(LoadFrom(file, rfault).processed_ids)

\* a getProcessedIds that knows no id
getProcessedIdsNone == {}

getProcessedIds == ProcessedIdsOf(ledgerFile, readFault)

\* save(tracker): stamps and writes the file; a write error is caught and
\* logged.  A failed open leaves the file as it was, a failed write leaves
\* the truncated file behind.
SavedFile(file, tracker, wfault) ==
  CASE wfault = "none" -> OkFile(tracker.processed_ids)
    [] wfault = "open" -> file
    [] OTHER -> CorruptFile

\* the loop of addStoryIds: Array.from of the insertion-ordered Set
RECURSIVE AddIds(_, _)
AddIds(current, storyIds) ==
  IF storyIds = <<>> THEN current
  ELSE AddIds(IF Head(storyIds) \in Range(current)
                THEN current ELSE Append(current, Head(storyIds)),
              Tail(storyIds))

\* addStoryIds(storyIds): the tracker it returns
addStoryIdsTracker(storyIds) ==
  [processed_ids |-> AddIds(load.processed_ids, storyIds), last_updated |-> "now"]

\* the loop of filterProcessedStories, from story i on
RECURSIVE FilterLoop(_, _, _, _, _)
FilterLoop(list, processedIds, i, seenInBatch, kept) ==
  IF i > Len(list) THEN kept
  ELSE LET storyId == StoryKey(list[i])
       IN IF storyId \in seenInBatch
            THEN FilterLoop(list, processedIds, i + 1, seenInBatch, kept)
            ELSE IF storyId \in processedIds
              THEN FilterLoop(list, processedIds, i + 1,
                              seenInBatch \cup {storyId}, kept)
              ELSE FilterLoop(list, processedIds, i + 1,
                              seenInBatch \cup {storyId},
                              Append(kept, list[i]))

\* a filter whose loop starts at the second story
FilterSkippingFirst(list, processedIds) ==
  FilterLoop(list, processedIds, 2, {}, <<>>)

\* filterProcessedStories(stories), given what getProcessedIds returned
FilterProcessed(list, processedIds) ==
  FilterLoop(list, processedIds, 1, {}, <<>>)

\* stories.map(s => s.ig_pk || s.media_url).filter(id => id)
RECURSIVE MarkedIds(_)
MarkedIds(list) ==
  IF list = <<>> THEN <<>>
  ELSE IF StoryKey(Head(list)) # NULL
    THEN <<StoryKey(Head(list))>> \o MarkedIds(Tail(list))
    ELSE MarkedIds(Tail(list))

LedgerView == <<ledgerFile, readFault>>

\* tracker.filterProcessedStories(batch)
FilterNew(batch) ==
  /\ lastOp' = "filter"
  /\ opArg' = batch
  /\ opRes' = FilterProcessed(batch, getProcessedIds)
  /\ sameLedger' = (opView = LedgerView)
  /\ opView' = LedgerView
  /\ UNCHANGED <<trackerVars, aroundTracker>>

\* tracker.filterProcessedStories applied to the list the last filter returned
FilterAgain ==
  /\ lastOp \in {"filter", "refilter"}
  /\ lastOp' = "refilter"
  /\ opArg' = opRes
  /\ opRes' = FilterProcessed(opRes, getProcessedIds)
  /\ sameLedger' = (opView = LedgerView)
  /\ opView' = LedgerView
  /\ UNCHANGED <<trackerVars, aroundTracker>>

\* tracker.markAsProcessed(batch)
MarkProcessed(batch) ==
  LET tracker == addStoryIdsTracker(MarkedIds(batch))
  IN /\ lastOp' = "mark"
     /\ opArg' = batch
     /\ opRes' = tracker.processed_ids
     /\ ledgerFile' = SavedFile(ledgerFile, tracker, writeFault)
     /\ sameLedger' = (opView = LedgerView)
     /\ opView' = <<ledgerFile', readFault>>
     /\ UNCHANGED <<readFault, writeFault, aroundTracker>>

\* tracker.filterProcessedStories on the batch that was just marked
FilterMarked ==
  /\ lastOp = "mark"
  /\ lastOp' = "filter_marked"
  /\ opRes' = FilterProcessed(opArg, getProcessedIds)
  /\ sameLedger' = (opView = LedgerView)
  /\ opView' = LedgerView
  /\ UNCHANGED <<opArg, trackerVars, aroundTracker>>

\* tracker.getStats()
GetStats ==
  /\ lastOp' = "stats"
  /\ opArg' = <<>>
  /\ opRes' = load.processed_ids
  /\ sameLedger' = (opView = LedgerView)
  /\ opView' = LedgerView
  /\ UNCHANGED <<trackerVars, aroundTracker>>

\* tracker.load()
Load ==
  /\ lastOp' = "load"
  /\ opArg' = <<>>
  /\ opRes' = load
  /\ sameLedger' = (opView = LedgerView)
  /\ opView' = LedgerView
  /\ UNCHANGED <<trackerVars, aroundTracker>>

\* tracker.clear(): unlink of the ledger file
Clear ==
  /\ lastOp' = "clear"
  /\ opArg' = <<>>
  /\ opRes' = <<>>
  /\ ledgerFile' = MissingFile
  /\ sameLedger' = (opView = LedgerView)
  /\ opView' = <<MissingFile, readFault>>
  /\ UNCHANGED <<readFault, writeFault, aroundTracker>>

\* the file system starts or stops failing reads and writes of the ledger
FsFault ==
  /\ \E r \in BOOLEAN, w \in {"none", "open", "partial"} :
       /\ <<r, w>> # <<readFault, writeFault>>
       /\ readFault' = r
       /\ writeFault' = w
  /\ UNCHANGED <<ledgerFile, callVars, aroundTracker>>

\* ------------------------------------------------------------------------
\* The browser page
\* ------------------------------------------------------------------------
StoryIds == {"111", "222", "333"}

P111 == "https://x.cdninstagram.com/p111.jpg"
P222 == "https://x.cdninstagram.com/p222.jpg"
P333 == "https://x.cdninstagram.com/p333.jpg"

\* what the viewer shows for a story: a visible <video> or not, the poster
\* of the story, its caption and outbound link, and the media requests the
\* page sends while the story is shown
StoryDefs ==
  [pk \in StoryIds |->
     CASE pk = "111" -> [video |-> TRUE, poster |-> P111, caption |-> NULL,
                         link |-> NULL, reqs |-> <<V111>>]
       [] pk = "222" -> [video |-> TRUE, poster |-> P222, caption |-> "caption 222",
                         link |-> NULL, reqs |-> <<V222Range, A222>>]
       [] OTHER -> [video |-> FALSE, poster |-> P333, caption |-> NULL,
                    link |-> "https://shop.example/", reqs |-> <<>>]]

Scripts == {s \in SeqsUpTo(StoryIds, MaxStories) : NoDup(s)}

ProfileUrl == "https://www.instagram.com/user/"

StoryUrl(pk) ==
  CASE pk = "111" -> "https://www.instagram.com/stories/user/111/"
    [] pk = "222" -> "https://www.instagram.com/stories/user/222/"
    [] OTHER -> "https://www.instagram.com/stories/user/333/"

\* page.url()
PageUrl == IF pos \in 1..Len(script) THEN StoryUrl(script[pos]) ELSE ProfileUrl

\* a viewer check that always passes
IsStoryViewerAlways(url) == TRUE

\* currentUrl.includes('/stories/')
IsStoryViewer(url) == url # ProfileUrl

\* currentUrl2.match(/stories\/[^/]+\/(\d+)/)
StoryPkOf(url) ==
  CASE url = "https://www.instagram.com/stories/user/111/" -> "111"
    [] url = "https://www.instagram.com/stories/user/222/" -> "222"
    [] url = "https://www.instagram.com/stories/user/333/" -> "333"
    [] OTHER -> NULL

\* posterUrl.startsWith('blob:')
IsBlob(url) == url = "blob:https://www.instagram.com/1"

\* the page.evaluate callback: isVideo and posterUrl are set together, from
\* the first visible <video> that has a src
DomContent ==
  IF pos \in 1..Len(script)
    THEN LET def == StoryDefs[script[pos]]
         IN Content(def.video, def.caption, def.link,
                    IF def.video THEN def.poster ELSE NULL)
    ELSE NoContent

BrowserIdle ==
  /\ script = <<>>
  /\ pos = 1
  /\ pending = <<>>

\* the page sends the next media request of the stories it has shown
Request ==
  /\ pending # <<>>
  /\ OnRequest(Head(pending))
  /\ pending' = Tail(pending)
  /\ UNCHANGED <<listening, script, pos>>
  /\ UNCHANGED <<serviceVars, trackerVars, callVars, pipelineVars, walkerVars, mainVars>>

\* page.keyboard.press('ArrowRight') was accepted: the viewer moves to the
\* next story (and starts loading its media) or does not react
ArrowRight(moves) ==
  IF moves /\ pos <= Len(script)
    THEN /\ pos' = pos + 1
         /\ pending' = IF pos + 1 <= Len(script)
                         THEN pending \o StoryDefs[script[pos + 1]].reqs
                         ELSE pending
         /\ UNCHANGED script
    ELSE UNCHANGED <<script, pos, pending>>

\* ------------------------------------------------------------------------
\* Story walker: extractStoryDataFromPage
\* ------------------------------------------------------------------------
WalkerIdle ==
  /\ wPc = "idle"
  /\ stories = <<>>
  /\ storyIndex = 0
  /\ noContentCount = 0
  /\ lastUrl = ""
  /\ seenPks = {}
  /\ storyPk = NULL
  /\ content = NoContent
  /\ videoUrl = NULL
  /\ audioUrl = NULL
  /\ wResult = <<>>

\* the viewer check, and the registration of the request listener
WalkStart ==
  /\ wPc = "start"
  /\ IF ~IsStoryViewer(PageUrl)
       THEN /\ wResult' = <<>>
            /\ wPc' = "returned"
            /\ UNCHANGED listenerVars
       ELSE /\ listening' = TRUE
            /\ capturedVideos' = <<>>
            /\ capturedAudios' = <<>>
            /\ currentStoryMedia' = EmptySlot
            /\ capturedAt' = NowhereYet
            /\ wPc' = "load"
            /\ UNCHANGED wResult
  /\ UNCHANGED <<stories, storyIndex, noContentCount, lastUrl, seenPks, storyPk,
                 content, videoUrl, audioUrl>>
  /\ UNCHANGED <<serviceVars, trackerVars, callVars, pipelineVars, browserVars, mainVars>>

\* if (this.seenPks.size === 0) this.seenPks = await tracker.getProcessedIds()
WalkLoad ==
  /\ wPc = "load"
  /\ seenPks' = IF seenPks = {} THEN getProcessedIds ELSE seenPks
  /\ wPc' = "loop"
  /\ UNCHANGED <<stories, storyIndex, noContentCount, lastUrl, storyPk,
                 content, videoUrl, audioUrl, wResult>>
  /\ UNCHANGED <<serviceVars, trackerVars, callVars, listenerVars, pipelineVars,
                 browserVars, mainVars>>

\* a loop condition that gives up after two idle increments
LoopContinuesUpToTwo(count) == count < 2

\* the loop condition: noContentCount < 3
LoopContinues(count) == count < 3

\* a guard that lets ArrowRight be pressed whatever the idle counter is
MayAdvanceAlways(count) == TRUE

\* the guard of both "Go to next story" sites: if (noContentCount < 3)
MayAdvance(count) == count < 3

\* a snapshot that reads the video entry only
SnapshotVideoOnly(slot) == [video |-> slot.video, audio |-> NULL]

\* const videoUrl = currentStoryMedia.video; const audioUrl =
\* currentStoryMedia.audio
SnapshotOf(slot) == [video |-> slot.video, audio |-> slot.audio]

\* while (noContentCount < 3) and the wait that opens a cycle; after the
\* loop, return stories
WalkLoop ==
  /\ wPc = "loop"
  /\ IF LoopContinues(noContentCount)
       THEN /\ wPc' = "cycle"
            /\ UNCHANGED wResult
       ELSE /\ wPc' = "returned"
            /\ wResult' = stories
  /\ UNCHANGED <<stories, storyIndex, noContentCount, lastUrl, seenPks, storyPk,
                 content, videoUrl, audioUrl>>
  /\ UNCHANGED <<serviceVars, trackerVars, callVars, listenerVars, pipelineVars,
                 browserVars, mainVars>>

\* an idle counter that never counts a location that stayed the same
CountAfterUrlNever(url, last, index, count) == 0

\* an idle counter that also lets the second cycle pass as never idle
CountAfterUrlLate(url, last, index, count) ==
  IF url = last /\ index > 1 THEN count + 1 ELSE 0

\* the idle counter after the location was read
CountAfterUrl(url, last, index, count) ==
  IF url = last /\ index > 0 THEN count + 1 ELSE 0

\* the location is read: idle counter, story id, and the skip of a story
\* that is already in this.seenPks
WalkCycle ==
  /\ wPc = "cycle"
  /\ LET currentUrl2 == PageUrl
         count == CountAfterUrl(currentUrl2, lastUrl, storyIndex, noContentCount)
         pk == StoryPkOf(currentUrl2)
     IN /\ noContentCount' = count
        /\ lastUrl' = IF currentUrl2 = lastUrl /\ storyIndex > 0 THEN lastUrl ELSE currentUrl2
        /\ storyPk' = pk
        /\ IF pk # NULL /\ pk \in seenPks
             THEN /\ storyIndex' = storyIndex + 1
                  /\ wPc' = IF MayAdvance(count) THEN "skip" ELSE "loop"
             ELSE /\ wPc' = "evaluate"
                  /\ UNCHANGED storyIndex
  /\ UNCHANGED <<stories, seenPks, content, videoUrl, audioUrl, wResult>>
  /\ UNCHANGED <<serviceVars, trackerVars, callVars, listenerVars, pipelineVars,
                 browserVars, mainVars>>

\* the press of ArrowRight: accepted (the viewer moves or not) or rejected
\* (break out of the loop, return stories)
PressArrowRight ==
  \/ /\ \E moves \in BOOLEAN : ArrowRight(moves)
     /\ wPc' = "loop"
     /\ UNCHANGED wResult
  \/ /\ wPc' = "returned"
     /\ wResult' = stories
     /\ UNCHANGED browserVars

\* "Go to next story" of the skip branch, then continue
WalkSkipAdvance ==
  /\ wPc = "skip"
  /\ PressArrowRight
  /\ UNCHANGED <<stories, storyIndex, noContentCount, lastUrl, seenPks, storyPk,
                 content, videoUrl, audioUrl>>
  /\ UNCHANGED <<serviceVars, trackerVars, callVars, listenerVars, pipelineVars, mainVars>>

\* image story: the last URL of capturedVideos, else a poster that is not a blob
ImageUrlOf(videos, cont) ==
  IF Len(videos) > 0 THEN videos[Len(videos)]
  ELSE IF cont.posterUrl # NULL /\ ~IsBlob(cont.posterUrl) THEN cont.posterUrl
  ELSE NULL

\* page.evaluate, the snapshot and reset of the slot, and the branch taken:
\* a video story starts processStory, an image story is pushed, anything
\* else counts as no content; an exception of page.evaluate ends the walk in
\* the outer catch, which returns []
WalkEvaluate ==
  /\ wPc = "evaluate"
  /\ \/ /\ wPc' = "returned"
        /\ wResult' = <<>>
        /\ UNCHANGED <<stories, noContentCount, seenPks, content, videoUrl, audioUrl>>
        /\ UNCHANGED <<listenerVars, pipelineVars>>
     \/ LET cont == DomContent
            vUrl == SnapshotOf(currentStoryMedia).video
            aUrl == SnapshotOf(currentStoryMedia).audio
            imageUrl == ImageUrlOf(capturedVideos, cont)
        IN /\ content' = cont
           /\ videoUrl' = vUrl
           /\ audioUrl' = aUrl
           /\ currentStoryMedia' = EmptySlot
           /\ UNCHANGED <<listening, capturedVideos, capturedAudios, capturedAt, wResult>>
           /\ IF vUrl # NULL /\ storyPk # NULL /\ cont.isVideo
                THEN IF storyPk \notin seenPks
                       THEN /\ seenPks' = seenPks \cup {storyPk}
                            /\ ProcessStoryStart(vUrl, aUrl)
                            /\ wPc' = "pipeline"
                            /\ UNCHANGED <<stories, noContentCount>>
                       ELSE /\ wPc' = "advance"
                            /\ UNCHANGED <<stories, noContentCount, seenPks, pipelineVars>>
                ELSE IF storyPk # NULL /\ ~cont.isVideo
                  THEN IF imageUrl # NULL /\ storyPk \notin seenPks
                         THEN /\ seenPks' = seenPks \cup {storyPk}
                              /\ stories' = Append(stories, ImageStoryItem(storyPk, cont, imageUrl))
                              /\ wPc' = "advance"
                              /\ UNCHANGED <<noContentCount, pipelineVars>>
                         ELSE /\ noContentCount' = noContentCount + 1
                              /\ wPc' = "advance"
                              /\ UNCHANGED <<stories, seenPks, pipelineVars>>
                  ELSE /\ noContentCount' = noContentCount + 1
                       /\ wPc' = "advance"
                       /\ UNCHANGED <<stories, seenPks, pipelineVars>>
  /\ UNCHANGED <<storyIndex, lastUrl, storyPk>>
  /\ UNCHANGED <<serviceVars, trackerVars, callVars, browserVars, mainVars>>

\* a walker that drops a story whose reconciliation failed
PushVideoStoryIfMirrored(batch, pk, cont, vUrl, aUrl, processResult) ==
  IF processResult.success
    THEN Append(batch, VideoStoryItem(pk, cont, vUrl, aUrl, processResult))
    ELSE batch

\* stories.push({...}) of the video branch
PushVideoStory(batch, pk, cont, vUrl, aUrl, processResult) ==
  Append(batch, VideoStoryItem(pk, cont, vUrl, aUrl, processResult))

\* a walker that does not wait for processStory before it pushes the story
WalkProcessedNoAwait ==
  /\ wPc = "pipeline"
  /\ stories' = PushVideoStory(stories, storyPk, content, videoUrl, audioUrl, pResult)
  /\ wPc' = "advance"
  /\ UNCHANGED <<storyIndex, noContentCount, lastUrl, seenPks, storyPk,
                 content, videoUrl, audioUrl, wResult>>
  /\ UNCHANGED <<serviceVars, trackerVars, callVars, listenerVars, pipelineVars,
                 browserVars, mainVars>>

\* processStory has returned: the video story is pushed
WalkProcessed ==
  /\ wPc = "pipeline"
  /\ pPc = "returned"
  /\ stories' = PushVideoStory(stories, storyPk, content, videoUrl, audioUrl, pResult)
  /\ wPc' = "advance"
  /\ UNCHANGED <<storyIndex, noContentCount, lastUrl, seenPks, storyPk,
                 content, videoUrl, audioUrl, wResult>>
  /\ UNCHANGED <<serviceVars, trackerVars, callVars, listenerVars, pipelineVars,
                 browserVars, mainVars>>

\* storyIndex++ and "Go to next story" at the end of a cycle
WalkAdvance ==
  /\ wPc = "advance"
  /\ storyIndex' = storyIndex + 1
  /\ IF MayAdvance(noContentCount)
       THEN PressArrowRight
       ELSE /\ wPc' = "loop"
            /\ UNCHANGED <<wResult, browserVars>>
  /\ UNCHANGED <<stories, noContentCount, lastUrl, seenPks, storyPk,
                 content, videoUrl, audioUrl>>
  /\ UNCHANGED <<serviceVars, trackerVars, callVars, listenerVars, pipelineVars, mainVars>>

\* ------------------------------------------------------------------------
\* main, from extractStories on
\* ------------------------------------------------------------------------
MainIdle ==
  /\ mPc = "idle"
  /\ allStories = <<>>
  /\ newStories = <<>>
  /\ outputFiles = <<>>
  /\ apiReceived = <<>>

\* extractStories: the walk has returned, Escape is pressed (a rejected
\* press is rethrown and is fatal for main); main exits when nothing was
\* extracted
MainExtracted ==
  /\ mPc = "extract"
  /\ wPc = "returned"
  /\ \/ /\ allStories' = wResult
        /\ mPc' = IF Len(wResult) = 0 THEN "exit_nothing" ELSE "filter"
     \/ /\ mPc' = "fatal"
        /\ UNCHANGED allStories
  /\ UNCHANGED <<newStories, outputFiles, apiReceived>>
  /\ UNCHANGED <<serviceVars, trackerVars, callVars, listenerVars, pipelineVars,
                 browserVars, walkerVars>>

\* a main that goes on with an empty list of new stories
MainFilterNoExit ==
  /\ mPc = "filter"
  /\ newStories' = FilterProcessed(allStories, getProcessedIds)
  /\ mPc' = "write"
  /\ UNCHANGED <<allStories, outputFiles, apiReceived>>
  /\ UNCHANGED <<serviceVars, trackerVars, callVars, listenerVars, pipelineVars,
                 browserVars, walkerVars>>

\* tracker.filterProcessedStories(allStories); main exits when nothing is new
MainFilter ==
  /\ mPc = "filter"
  /\ LET filtered == FilterProcessed(allStories, getProcessedIds)
     IN /\ newStories' = filtered
        /\ mPc' = IF Len(filtered) = 0 THEN "exit_nothing_new" ELSE "write"
  /\ UNCHANGED <<allStories, outputFiles, apiReceived>>
  /\ UNCHANGED <<serviceVars, trackerVars, callVars, listenerVars, pipelineVars,
                 browserVars, walkerVars>>

\* a main that goes on to markAsProcessed whether or not the output file was
\* written
MainWriteOutputUnchecked ==
  /\ mPc = "write"
  /\ \/ outputFiles' = Append(outputFiles, newStories)
     \/ UNCHANGED outputFiles
  /\ mPc' = "mark"
  /\ UNCHANGED <<allStories, newStories, apiReceived>>
  /\ UNCHANGED <<serviceVars, trackerVars, callVars, listenerVars, pipelineVars,
                 browserVars, walkerVars>>

\* fs.writeFile of the output file; an error is fatal for main
MainWriteOutput ==
  /\ mPc = "write"
  /\ \/ /\ outputFiles' = Append(outputFiles, newStories)
        /\ mPc' = "mark"
     \/ /\ mPc' = "fatal"
        /\ UNCHANGED outputFiles
  /\ UNCHANGED <<allStories, newStories, apiReceived>>
  /\ UNCHANGED <<serviceVars, trackerVars, callVars, listenerVars, pipelineVars,
                 browserVars, walkerVars>>

\* tracker.markAsProcessed(newStories) and tracker.getStats()
MainMarkProcessed ==
  /\ mPc = "mark"
  /\ ledgerFile' = SavedFile(ledgerFile, addStoryIdsTracker(MarkedIds(newStories)),
                             writeFault)
  /\ mPc' = "send"
  /\ UNCHANGED <<allStories, newStories, outputFiles, apiReceived>>
  /\ UNCHANGED <<readFault, writeFault>>
  /\ UNCHANGED <<serviceVars, callVars, listenerVars, pipelineVars,
                 browserVars, walkerVars>>

\* sendToApi('stories', ...): accepted or not; then the browser is closed
MainSend ==
  /\ mPc = "send"
  /\ \/ apiReceived' = Append(apiReceived, newStories)
     \/ UNCHANGED apiReceived
  /\ mPc' = "done"
  /\ UNCHANGED <<allStories, newStories, outputFiles>>
  /\ UNCHANGED <<serviceVars, trackerVars, callVars, listenerVars, pipelineVars,
                 browserVars, walkerVars>>

\* ------------------------------------------------------------------------
\* Media server and classifier, at rest
\* ------------------------------------------------------------------------
NoRequest == [method |-> NULL, id |-> NULL, range |-> <<>>]

\* a response: the status, the Content-Range (start, end, size) and the
\* Content-Length when they are declared, the offsets of the file bytes in
\* the body, the ids of a listing, and the status handed to writeHead when
\* the handler threw after it
Response(status, contentRange, contentLength, body, ids, written) ==
  [status |-> status, contentRange |-> contentRange, contentLength |-> contentLength,
   body |-> body, ids |-> ids, written |-> written]

NoResponse == Response(NULL, <<>>, <<>>, <<>>, {}, NULL)

\* no request is being handled, isAudioOnly and login have not been
\* called (the constructor's this.isLoggedIn = false)
ServiceIdle ==
  /\ sReq = NoRequest
  /\ sRes = NoResponse
  /\ cUrl = NULL
  /\ cKind = NULL
  /\ fPc = "idle"
  /\ fReq = [method |-> NULL, id |-> NULL, range |-> <<>>, size |-> 0]
  /\ fRes = NoResponse
  /\ lPc = "idle"
  /\ gotoCalls = 0
  /\ gotoLoaded = FALSE
  /\ isLoggedIn = FALSE
  /\ lPage = [form |-> FALSE, continue |-> FALSE, modal |-> FALSE,
              after |-> NULL, manual |-> FALSE]
  /\ lOut = NULL

\* ------------------------------------------------------------------------
\* Media server (server.js) over the video_stories directory
\* ------------------------------------------------------------------------
\* stat.size of a file of the store
FileSize(kind) ==
  CASE kind = "merged" -> 3
    [] kind = "video_only" -> 2
    [] OTHER -> 1

\* files the directory can hold when the server takes a request
ServerArtifacts == {<<"uuid1", "merged">>, <<"uuid2", "video_only">>}

\* :id of a request; uuid3 is never in the directory
ServerIds == {"uuid1", "uuid2", "uuid3"}

\* a JavaScript number is <<n>>, NaN is <<>>
Num(n) == <<n>>

NaN == <<>>

\* what is between the dashes of a Range header once "bytes=" is taken out
RangePieces == {"", "x", "0", "1", "2", "3"}

\* range.replace(/bytes=/, '').split('-') for the Range headers a client
\* can send: "bytes=1" is <<"1">>, "bytes=0-2" is <<"0", "2">>, "bytes=1-"
\* is <<"1", "">>, "bytes=-2" is <<"", "2">>; <<>> is no Range header
RangeHeaders ==
  {<<>>} \cup {<<a>> : a \in RangePieces}
         \cup {<<a, b>> : a \in RangePieces, b \in RangePieces}

\* parseInt(piece, 10)
ParseInt(piece) ==
  CASE piece = "0" -> Num(0)
    [] piece = "1" -> Num(1)
    [] piece = "2" -> Num(2)
    [] piece = "3" -> Num(3)
    [] OTHER -> NaN

\* a chunk size that leaves the last byte out
ChunkSizeExclusive(start, end) ==
  IF start = NaN \/ end = NaN THEN NaN ELSE Num(end[1] - start[1])

\* end - start + 1
ChunkSize(start, end) ==
  IF start = NaN \/ end = NaN THEN NaN ELSE Num(end[1] - start[1] + 1)

\* offsets first..last of a file, in order
Offsets(first, last) == [i \in 1..(last - first + 1) |-> first + i - 1]

\* fs.createReadStream(path, {start, end}) piped into the response: a start
\* or end that is no integer, or a start after the end, throws at the call;
\* otherwise the stream gives the bytes from start to end that the file has
ReadStream(size, start, end) ==
  IF start = NaN \/ end = NaN THEN [threw |-> TRUE, bytes |-> <<>>]
  ELSE IF start[1] > end[1] THEN [threw |-> TRUE, bytes |-> <<>>]
  ELSE [threw |-> FALSE,
        bytes |-> Offsets(start[1], IF end[1] < size THEN end[1] ELSE size - 1)]

\* videoExists(id)
videoExists(id) == StoredUnder(id) # {}

\* getAllVideoIds()
getAllVideoIds == {f[1] : f \in videoStore}

\* a deleteVideo that reports the deletion and leaves the file
deleteVideoKeeping(id) ==
  [deleted |-> StoredUnder(id) # {}, store |-> videoStore]

\* deleteVideo(id): unlink of a file that is not there throws and gives false
deleteVideo(id) ==
  [deleted |-> StoredUnder(id) # {}, store |-> Unlink(videoStore, StoredUnder(id))]

\* stat.size of the file under an id
SizeOf(id) == FileSize((CHOOSE f \in StoredUnder(id) : TRUE)[2])

NotFound == Response("404", <<>>, <<>>, <<>>, {}, NULL)

\* what the server leaves alone
aroundServer == <<trackerVars, callVars, listenerVars, browserVars, walkerVars,
                  mainVars, cUrl, cKind, loginVars>>

exceptStore == <<pPc, pVideoUrl, pAudioUrl, pVideoId, pLog, pResult, runs, tempFiles>>

\* GET /videos
GetVideos ==
  /\ sReq' = [method |-> "list", id |-> NULL, range |-> <<>>]
  /\ sRes' = Response("200", <<>>, <<>>, <<>>, getAllVideoIds, NULL)
  /\ UNCHANGED <<videoStore, exceptStore, aroundServer, raceVars>>

\* GET /videos/:id.mp4
GetVideo ==
  \E id \in ServerIds :
    /\ sReq' = [method |-> "fetch", id |-> id, range |-> <<>>]
    /\ sRes' = IF ~videoExists(id) THEN NotFound
               ELSE Response("200", <<>>, Num(SizeOf(id)),
                             Offsets(0, SizeOf(id) - 1), {}, NULL)
    /\ UNCHANGED <<videoStore, exceptStore, aroundServer, raceVars>>

\* the branches of GET /stream/:id.mp4 on a file that exists
Stream(fileSize, range) ==
  IF range # <<>>
    THEN LET start == ParseInt(range[1])
             end == IF Len(range) > 1 /\ range[2] # ""
                      THEN ParseInt(range[2])
                      ELSE Num(fileSize - 1)
             chunkSize == ChunkSize(start, end)
             stream == ReadStream(fileSize, start, end)
         IN IF stream.threw
              \* the catch cannot answer once writeHead has run: its
              \* res.status(500).json throws and no response leaves
              THEN Response("none", <<>>, <<>>, <<>>, {}, "206")
              ELSE Response("206", <<start[1], end[1], fileSize>>, chunkSize,
                            stream.bytes, {}, NULL)
    ELSE Response("200", <<>>, Num(fileSize), Offsets(0, fileSize - 1), {}, NULL)

\* GET /stream/:id.mp4
GetStream ==
  \E id \in ServerIds, range \in RangeHeaders :
    /\ sReq' = [method |-> "stream", id |-> id, range |-> range]
    /\ sRes' = IF ~videoExists(id) THEN NotFound ELSE Stream(SizeOf(id), range)
    /\ UNCHANGED <<videoStore, exceptStore, aroundServer, raceVars>>

\* DELETE /videos/:id
DeleteVideo ==
  \E id \in ServerIds :
    /\ sReq' = [method |-> "delete", id |-> id, range |-> <<>>]
    /\ sRes' = IF deleteVideo(id).deleted
                 THEN Response("200", <<>>, <<>>, <<>>, {}, NULL)
                 ELSE NotFound
    /\ videoStore' = deleteVideo(id).store
    /\ UNCHANGED <<exceptStore, aroundServer, raceVars>>

\* A GET handler taken one await at a time, so that a DELETE can run
\* between its steps. The request arrives and await videoExists(id)
\* answers; the Range headers are ones that are valid for every artifact.
RaceExists ==
  /\ fPc \in {"idle", "done"}
  /\ \E id \in ServerIds, method \in {"fetch", "stream"},
        range \in {<<>>, <<"1">>, <<"0", "1">>} :
       /\ method = "fetch" => range = <<>>
       /\ fReq' = [method |-> method, id |-> id, range |-> range, size |-> 0]
       /\ IF ~videoExists(id)
            THEN /\ fRes' = NotFound
                 /\ fPc' = "done"
            ELSE /\ fRes' = NoResponse
                 /\ fPc' = "stat"
  /\ UNCHANGED <<videoStore, exceptStore, aroundServer, sReq, sRes>>

\* GET /videos/:id.mp4 goes on with res.sendFile, which answers 404 for a
\* file that is gone; GET /stream/:id.mp4 goes on with await stat, which
\* throws for a file that is gone, and the catch answers 500
RaceStat ==
  /\ fPc = "stat"
  /\ IF fReq.method = "fetch"
       THEN /\ fRes' = IF ~videoExists(fReq.id) THEN NotFound
                        ELSE Response("200", <<>>, Num(SizeOf(fReq.id)),
                                      Offsets(0, SizeOf(fReq.id) - 1), {}, NULL)
            /\ fPc' = "done"
            /\ UNCHANGED fReq
       ELSE IF ~videoExists(fReq.id)
              THEN /\ fRes' = Response("500", <<>>, <<>>, <<>>, {}, NULL)
                   /\ fPc' = "done"
                   /\ UNCHANGED fReq
              ELSE /\ fReq' = [fReq EXCEPT !.size = SizeOf(fReq.id)]
                   /\ fPc' = "open"
                   /\ UNCHANGED fRes
  /\ UNCHANGED <<videoStore, exceptStore, aroundServer, sReq, sRes>>

\* res.writeHead, then (await import('fs')).createReadStream(videoPath):
\* the stream of a file that is gone fails after the head, with its
\* Content-Length, has been written, and no body follows
RaceOpen ==
  /\ fPc = "open"
  /\ fRes' = IF ~videoExists(fReq.id)
               THEN Response("none", <<>>, <<>>, <<>>, {},
                             IF fReq.range # <<>> THEN "206" ELSE "200")
               ELSE Stream(fReq.size, fReq.range)
  /\ fPc' = "done"
  /\ UNCHANGED fReq
  /\ UNCHANGED <<videoStore, exceptStore, aroundServer, sReq, sRes>>

\* ------------------------------------------------------------------------
\* InstagramScraper.login
\* ------------------------------------------------------------------------
\* a loop that tries a fourth time
MoreAttemptsFour(i) == i < 4

\* for (let i = 0; i < 3; i++)
MoreAttempts(i) == i < 3

\* one pass of the loop: page.goto resolves (loaded = true; break) or
\* rejects (the catch logs and waits, i++); gotoCalls is i
LoginGoto ==
  /\ lPc = "goto"
  /\ ~gotoLoaded
  /\ MoreAttempts(gotoCalls)
  /\ gotoCalls' = gotoCalls + 1
  /\ gotoLoaded' \in BOOLEAN
  /\ UNCHANGED <<lPc, isLoggedIn, lPage, lOut>>
  /\ UNCHANGED <<trackerVars, callVars, listenerVars, pipelineVars, browserVars,
                 walkerVars, mainVars, sReq, sRes, cUrl, cKind, raceVars>>

\* the loop is left by break or by its condition:
\* if (!loaded) throw new Error('Failed to load Instagram after 3 attempts')
LoginCheckLoaded ==
  /\ lPc = "goto"
  /\ gotoLoaded \/ ~MoreAttempts(gotoCalls)
  /\ lPc' = IF ~gotoLoaded THEN "catch" ELSE "steps"
  /\ UNCHANGED <<gotoCalls, gotoLoaded, isLoggedIn, lPage, lOut>>
  /\ UNCHANGED <<trackerVars, callVars, listenerVars, pipelineVars, browserVars,
                 walkerVars, mainVars, sReq, sRes, cUrl, cKind, raceVars>>

\* the login steps on the loaded page. Without form and Continue button
\* the session is active; a Continue button whose password modal confirms
\* the session ends the login too; otherwise the credentials are entered
\* (by hand, or filled in and submitted: an error text throws, a challenge
\* waits for onLoginReady), popups are dismissed, this.isLoggedIn = true
\* and saveSession. Each browser call may throw.
LoginSteps ==
  /\ lPc = "steps"
  /\ \/ /\ \/ ~lPage.form /\ ~lPage.continue
           \/ lPage.continue /\ lPage.modal
           \/ lPage.manual
           \/ lPage.after # "error"
        /\ isLoggedIn' = TRUE
        /\ lOut' = "true"
        /\ lPc' = "returned"
     \/ /\ isLoggedIn' \in {isLoggedIn, TRUE}
        /\ lPc' = "catch"
        /\ UNCHANGED lOut
  /\ UNCHANGED <<gotoCalls, gotoLoaded, lPage>>
  /\ UNCHANGED <<trackerVars, callVars, listenerVars, pipelineVars, browserVars,
                 walkerVars, mainVars, sReq, sRes, cUrl, cKind, raceVars>>

\* the catch of login: this.isLoggedIn = false, the error notification,
\* throw error
LoginCatch ==
  /\ lPc = "catch"
  /\ isLoggedIn' = FALSE
  /\ lOut' = "throws"
  /\ lPc' = "returned"
  /\ UNCHANGED <<gotoCalls, gotoLoaded, lPage>>
  /\ UNCHANGED <<trackerVars, callVars, listenerVars, pipelineVars, browserVars,
                 walkerVars, mainVars, sReq, sRes, cUrl, cKind, raceVars>>

\* ------------------------------------------------------------------------
\* isAudioOnly called on its own
\* ------------------------------------------------------------------------
TagPieces == {"audio", "AUDIO", "vp9", "AVC", "aac"}

Efgs == {"absent", "garbage", "json_null", "json_numtag", "json"}

\* URLs of every shape the classifier tells apart (a tag only exists inside
\* an efg that decodes to an object)
ClassifierUrls ==
  {[cdn |-> TRUE, mp4 |-> TRUE, m78 |-> a, m367 |-> v, parses |-> w,
    efg |-> e, tag |-> t, clean |-> NULL] :
     a \in BOOLEAN, v \in BOOLEAN, w \in BOOLEAN, e \in Efgs \ {"json"}, t \in {{}}}
  \cup
  {[cdn |-> TRUE, mp4 |-> TRUE, m78 |-> a, m367 |-> v, parses |-> w,
    efg |-> "json", tag |-> t, clean |-> NULL] :
     a \in BOOLEAN, v \in BOOLEAN, w \in BOOLEAN, t \in SUBSET TagPieces}

\* isAudioOnly(url) is called
Classify ==
  /\ cKind = NULL
  /\ cKind' = IF AudioOnlyOf(cUrl) THEN "audio" ELSE "video"
  /\ UNCHANGED <<cUrl, sReq, sRes, raceVars, loginVars>>
  /\ UNCHANGED <<trackerVars, callVars, listenerVars, pipelineVars, browserVars,
                 walkerVars, mainVars>>

\* isAudioOnly is called again on the URL it was last called on
ClassifyAgain ==
  /\ cKind # NULL
  /\ cKind' = IF AudioOnlyOf(cUrl) THEN "audio" ELSE "video"
  /\ UNCHANGED <<cUrl, sReq, sRes, raceVars, loginVars>>
  /\ UNCHANGED <<trackerVars, callVars, listenerVars, pipelineVars, browserVars,
                 walkerVars, mainVars>>

\* the caller turns to another URL
NextUrl ==
  /\ cKind # NULL
  /\ \E u \in ClassifierUrls \ {cUrl} : cUrl' = u
  /\ cKind' = NULL
  /\ UNCHANGED <<sReq, sRes, raceVars, loginVars>>
  /\ UNCHANGED <<trackerVars, callVars, listenerVars, pipelineVars, browserVars,
                 walkerVars, mainVars>>

\* ledgers an account can have when a process starts
InitialLedgers == {MissingFile, OkFile(<<"111">>), OkFile(<<"img1">>)}

TrackerInit ==
  /\ ledgerFile \in InitialLedgers
  /\ readFault = FALSE
  /\ writeFault = "none"
  /\ lastOp = "new"
  /\ opArg = <<>>
  /\ opRes = <<>>
  /\ opView = <<ledgerFile, FALSE>>
  /\ sameLedger = TRUE
  /\ ListenerInit
  /\ PipelineInit
  /\ BrowserIdle
  /\ WalkerIdle
  /\ MainIdle
  /\ ServiceIdle

TrackerNext ==
  \/ \E batch \in TrackerBatches : FilterNew(batch)
  \/ FilterAgain
  \/ \E batch \in TrackerBatches : MarkProcessed(batch)
  \/ FilterMarked
  \/ GetStats
  \/ Load
  \/ Clear
  \/ FsFault

TrackerSpec == TrackerInit /\ [][TrackerNext]_vars

PipelineSpecInit ==
  /\ ledgerFile = MissingFile
  /\ readFault = FALSE
  /\ writeFault = "none"
  /\ lastOp = "new"
  /\ opArg = <<>>
  /\ opRes = <<>>
  /\ opView = <<ledgerFile, FALSE>>
  /\ sameLedger = TRUE
  /\ ListenerInit
  /\ PipelineInit
  /\ BrowserIdle
  /\ WalkerIdle
  /\ MainIdle
  /\ ServiceIdle

PipelineNext ==
  \/ CallProcessStory
  \/ DownloadVideo
  \/ DownloadAudio
  \/ CombineVideoAudio
  \/ CopyVideoOnly
  \/ ReturnSuccess
  \/ ReturnFailure

PipelineSpec == PipelineSpecInit /\ [][PipelineNext]_vars

\* the server starts on a directory earlier runs have filled
ServerInit ==
  /\ ledgerFile = MissingFile
  /\ readFault = FALSE
  /\ writeFault = "none"
  /\ lastOp = "new"
  /\ opArg = <<>>
  /\ opRes = <<>>
  /\ opView = <<ledgerFile, FALSE>>
  /\ sameLedger = TRUE
  /\ ListenerInit
  /\ pPc = "idle"
  /\ pVideoUrl = NULL
  /\ pAudioUrl = NULL
  /\ pVideoId = NULL
  /\ pLog = <<>>
  /\ pResult = NoResult
  /\ runs = 0
  /\ tempFiles = {}
  /\ videoStore \in SUBSET ServerArtifacts
  /\ BrowserIdle
  /\ WalkerIdle
  /\ MainIdle
  /\ ServiceIdle

ServerNext ==
  \/ GetVideos
  \/ GetVideo
  \/ GetStream
  \/ DeleteVideo

ServerSpec == ServerInit /\ [][ServerNext]_vars

\* main from the return of the walk on, for any batch the walk can hand
\* over: the ledger may hold identifiers of the batch that it did not hold,
\* or that could not be read, when the walk started
MainInit ==
  /\ ledgerFile \in InitialLedgers
  /\ readFault \in BOOLEAN
  /\ writeFault \in {"none", "open", "partial"}
  /\ lastOp = "new"
  /\ opArg = <<>>
  /\ opRes = <<>>
  /\ opView = <<ledgerFile, readFault>>
  /\ sameLedger = TRUE
  /\ ListenerInit
  /\ PipelineInit
  /\ BrowserIdle
  /\ wPc = "returned"
  /\ wResult \in TrackerBatches
  /\ stories = wResult
  /\ storyIndex = 0
  /\ noContentCount = 0
  /\ lastUrl = ""
  /\ seenPks = {}
  /\ storyPk = NULL
  /\ content = NoContent
  /\ videoUrl = NULL
  /\ audioUrl = NULL
  /\ mPc = "extract"
  /\ allStories = <<>>
  /\ newStories = <<>>
  /\ outputFiles = <<>>
  /\ apiReceived = <<>>
  /\ ServiceIdle

MainNext ==
  \/ MainExtracted
  \/ MainFilter
  \/ MainWriteOutput
  \/ MainMarkProcessed
  \/ MainSend

MainSpec == MainInit /\ [][MainNext]_vars

\* GET handlers and DELETE requests side by side
RaceNext ==
  \/ RaceExists
  \/ RaceStat
  \/ RaceOpen
  \/ DeleteVideo

RaceSpec == ServerInit /\ [][RaceNext]_vars

\* login is called on a fresh scraper; lPage is what it finds once the
\* page is loaded: the login form, the Continue button, whether the
\* password modal confirms the session, where the submit of the
\* credentials leads, and config.forceManualLogin
LoginInit ==
  /\ ledgerFile = MissingFile
  /\ readFault = FALSE
  /\ writeFault = "none"
  /\ lastOp = "new"
  /\ opArg = <<>>
  /\ opRes = <<>>
  /\ opView = <<ledgerFile, FALSE>>
  /\ sameLedger = TRUE
  /\ ListenerInit
  /\ PipelineInit
  /\ BrowserIdle
  /\ WalkerIdle
  /\ MainIdle
  /\ sReq = NoRequest
  /\ sRes = NoResponse
  /\ cUrl = NULL
  /\ cKind = NULL
  /\ fPc = "idle"
  /\ fReq = [method |-> NULL, id |-> NULL, range |-> <<>>, size |-> 0]
  /\ fRes = NoResponse
  /\ lPc = "goto"
  /\ gotoCalls = 0
  /\ gotoLoaded = FALSE
  /\ isLoggedIn = FALSE
  /\ lPage \in [form : BOOLEAN, continue : BOOLEAN, modal : BOOLEAN,
                 after : {"home", "error", "challenge"}, manual : BOOLEAN]
  /\ lOut = NULL

LoginNext ==
  \/ LoginGoto
  \/ LoginCheckLoaded
  \/ LoginSteps
  \/ LoginCatch

LoginSpec == LoginInit /\ [][LoginNext]_vars

ClassifyInit ==
  /\ ledgerFile = MissingFile
  /\ readFault = FALSE
  /\ writeFault = "none"
  /\ lastOp = "new"
  /\ opArg = <<>>
  /\ opRes = <<>>
  /\ opView = <<ledgerFile, FALSE>>
  /\ sameLedger = TRUE
  /\ ListenerInit
  /\ PipelineInit
  /\ BrowserIdle
  /\ WalkerIdle
  /\ MainIdle
  /\ sReq = NoRequest
  /\ sRes = NoResponse
  /\ cUrl \in ClassifierUrls
  /\ cKind = NULL
  /\ fPc = "idle"
  /\ fReq = [method |-> NULL, id |-> NULL, range |-> <<>>, size |-> 0]
  /\ fRes = NoResponse
  /\ lPc = "idle"
  /\ gotoCalls = 0
  /\ gotoLoaded = FALSE
  /\ isLoggedIn = FALSE
  /\ lPage = [form |-> FALSE, continue |-> FALSE, modal |-> FALSE,
              after |-> NULL, manual |-> FALSE]
  /\ lOut = NULL

ClassifyNext ==
  \/ Classify
  \/ ClassifyAgain
  \/ NextUrl

ClassifySpec == ClassifyInit /\ [][ClassifyNext]_vars

\* a run of main on an account: any ledger, any sequence of stories in the
\* viewer, a file system that fails or not
RunInit ==
  /\ ledgerFile \in {MissingFile, OkFile(<<"111">>), OkFile(<<"222">>)}
  /\ readFault \in BOOLEAN
  /\ writeFault \in {"none", "open", "partial"}
  /\ lastOp = "new"
  /\ opArg = <<>>
  /\ opRes = <<>>
  /\ opView = <<ledgerFile, readFault>>
  /\ sameLedger = TRUE
  /\ ListenerInit
  /\ PipelineInit
  /\ script \in Scripts
  /\ pos = 1
  /\ pending = IF script # <<>> THEN StoryDefs[script[1]].reqs ELSE <<>>
  /\ wPc = "start"
  /\ stories = <<>>
  /\ storyIndex = 0
  /\ noContentCount = 0
  /\ lastUrl = ""
  /\ seenPks = {}
  /\ storyPk = NULL
  /\ content = NoContent
  /\ videoUrl = NULL
  /\ audioUrl = NULL
  /\ wResult = <<>>
  /\ mPc = "extract"
  /\ allStories = <<>>
  /\ newStories = <<>>
  /\ outputFiles = <<>>
  /\ apiReceived = <<>>
  /\ ServiceIdle

RunNext ==
  \/ Request
  \/ WalkStart
  \/ WalkLoad
  \/ WalkLoop
  \/ WalkCycle
  \/ WalkSkipAdvance
  \/ WalkEvaluate
  \/ DownloadVideo
  \/ DownloadAudio
  \/ CombineVideoAudio
  \/ CopyVideoOnly
  \/ ReturnSuccess
  \/ ReturnFailure
  \/ WalkProcessed
  \/ WalkAdvance
  \/ MainExtracted
  \/ MainFilter
  \/ MainWriteOutput
  \/ MainMarkProcessed
  \/ MainSend

RunSpec == RunInit /\ [][RunNext]_vars

\* runs on a file system without faults in which every awaited operation
\* returns: a step that can be taken is taken
RunFairInit ==
  /\ RunInit
  /\ ~readFault
  /\ writeFault = "none"

RunFairSpec == RunFairInit /\ [][RunNext]_vars /\ WF_vars(RunNext)

\* ------------------------------------------------------------------------
\* Properties of the media reconciliation pipeline
\* ------------------------------------------------------------------------
\* C3: when the video download and the audio download succeed and ffmpeg
\* exits non-zero, processStory still returns success, with a video-only
\* artifact stored under the uuid of the run.
C3_MergeFailureFallsBack ==
  (pPc = "returned" /\ pLog = <<"video_ok", "audio_ok", "merge_failed">>) =>
    /\ pResult.success
    /\ StoredUnder(pVideoId) = {<<pVideoId, "video_only">>}

\* C4: when an audio URL is given, the video download succeeded and the
\* audio download fails, processStory returns success, the artifact stored
\* under the uuid of the run is the video-only download, and ffmpeg was not
\* run.
C4_AudioFailureFallsBack ==
  ("audio_failed" \in Range(pLog)) =>
    /\ "merge_ok" \notin Range(pLog) /\ "merge_failed" \notin Range(pLog)
    /\ pPc = "returned" =>
         /\ pResult.success
         /\ pResult.videoId = pVideoId
         /\ StoredUnder(pVideoId) = {<<pVideoId, "video_only">>}

C4_Witness ==
  /\ pPc = "returned"
  /\ pAudioUrl # NULL
  /\ pLog = <<"video_ok", "audio_failed", "copy">>

\* C5: when the video download fails, processStory attempts neither the
\* audio download nor the merge, returns a failure result carrying an error,
\* and leaves no file under the uuid of the run in the artifact store.
C5_VideoFailureAborts ==
  ("video_failed" \in Range(pLog)) =>
    /\ pLog = <<"video_failed">>
    /\ pPc \in {"catch", "returned"}
    /\ StoredUnder(pVideoId) = {}
    /\ pPc = "returned" => (~pResult.success /\ pResult.error # NULL)

C5_Witness ==
  /\ pPc = "returned"
  /\ pAudioUrl # NULL
  /\ pLog = <<"video_failed">>
  /\ ~pResult.success

\* C6: once a run of processStory has returned, whatever its outcome, neither
\* its temporary video file nor its temporary audio file is left in
\* temp_media.
C6_NoTempFileLeft ==
  (pPc = "returned") =>
    /\ <<pVideoId, "video">> \notin tempFiles
    /\ <<pVideoId, "audio">> \notin tempFiles

\* runs of every outcome have returned: here a merged one after a failed one
C6_Witness ==
  /\ pPc = "returned"
  /\ pLog = <<"video_ok", "audio_ok", "merge_ok">>
  /\ pResult.success
  /\ runs = 2
  /\ StoredUnder(Uuids[1]) = {}

\* ------------------------------------------------------------------------
\* Properties of the dedup ledger
\* ------------------------------------------------------------------------
FilterOps == {"filter", "refilter", "filter_marked"}

\* identifiers the ledger file holds
PersistedIds(file) == IF file.state = "ok" THEN Range(file.processed_ids) ELSE {}

\* the stories of a batch at the positions in I, in batch order
RECURSIVE PickFrom(_, _, _)
PickFrom(list, I, i) ==
  IF i > Len(list) THEN <<>>
  ELSE IF i \in I THEN <<list[i]>> \o PickFrom(list, I, i + 1)
  ELSE PickFrom(list, I, i + 1)

\* the identity key of a story: its platform id, or its media URL when it
\* has none
IdentityKey(story) == IF story.ig_pk = NULL THEN story.media_url ELSE story.ig_pk

\* first occurrence of every identity key that is not in the set known
FirstOccurrencesNotIn(list, known) ==
  PickFrom(list,
           {i \in 1..Len(list) :
              /\ IdentityKey(list[i]) \notin known
              /\ \A j \in 1..(i - 1) : IdentityKey(list[j]) # IdentityKey(list[i])},
           1)

\* C7: after markProcessed(batch) has returned, filterNew(batch) on the same
\* ledger (nothing touched the file in between, and the ledger can be read)
\* returns an empty list.
C7_FilterAfterMarkIsEmpty ==
  (lastOp = "filter_marked" /\ sameLedger /\ ~readFault) => opRes = <<>>

\* C8: filterNew is idempotent: filterNew applied to the list that filterNew
\* returned, on a ledger that did not change between the two calls, returns
\* that list again.
C8_FilterIdempotent ==
  (lastOp = "refilter" /\ sameLedger) => opRes = opArg

C8_Witness ==
  /\ lastOp = "refilter"
  /\ sameLedger
  /\ opRes # <<>>
  /\ ledgerFile.state = "ok"
  /\ ledgerFile.processed_ids # <<>>
  /\ ~readFault

\* C9 as stated: filterNew returns, in input order, the first occurrence of
\* each identity key that is not in the persisted processed set, and leaves
\* the ledger file as it was.
C9_FilterAgainstPersisted ==
  [][(lastOp' \in FilterOps /\ callVars' # callVars) =>
       /\ opRes' = FirstOccurrencesNotIn(opArg', PersistedIds(ledgerFile))
       /\ ledgerFile' = ledgerFile]_vars

\* C9 amended: filterNew returns, in input order, the first occurrence of
\* each identity key that is not in the processed set load() hands it (the
\* persisted set, or the empty set when the ledger file is missing,
\* unparsable or its read fails), and leaves the ledger file as it was.
C9_FilterAgainstLoaded ==
  [][(lastOp' \in FilterOps /\ callVars' # callVars) =>
       /\ opRes' = FirstOccurrencesNotIn(opArg', ProcessedIdsOf(ledgerFile, readFault))
       /\ ledgerFile' = ledgerFile]_vars

\* a batch with a repeated key, a key falling back to the media URL and a
\* key the ledger holds was filtered
C9_Witness ==
  /\ lastOp = "filter"
  /\ ~readFault
  /\ Len(opArg) = 3
  /\ Len(opRes) = 1
  /\ opRes[1].ig_pk = NULL
  /\ opArg[1].ig_pk = "111"
  /\ "111" \in PersistedIds(ledgerFile)

\* C10: whatever load, filterNew, markProcessed and getStats do, and whether
\* or not a read of the ledger fails, an identifier that is persisted stays
\* persisted unless clear() is called (here: even while every write succeeds).
C10_LedgerOnlyGrows ==
  [][(lastOp' # "clear" /\ writeFault = "none") =>
       PersistedIds(ledgerFile) \subseteq PersistedIds(ledgerFile')]_vars

\* C11: after markProcessed, loading the ledger (with a read that succeeds)
\* yields a processed_ids list equal, as a set, to the identifiers persisted
\* before united with every identifier marked, with no identifier twice.
C11_MarkRoundTrips ==
  [][(lastOp' = "mark" /\ callVars' # callVars) =>
       LET loaded == LoadFrom(ledgerFile', FALSE).processed_ids
       IN /\ Range(loaded) = PersistedIds(ledgerFile) \cup Range(MarkedIds(opArg'))
          /\ NoDup(loaded)]_vars

\* C12: markProcessed rewrites the ledger atomically: when the ledger could
\* be read at the call, the file it leaves is readable and holds either the
\* set from before the call or that set united with all the given
\* identifiers, whatever happens to the write.
C12_MarkIsAtomic ==
  [][(lastOp' = "mark" /\ callVars' # callVars /\ ~readFault
        /\ ledgerFile.state # "corrupt") =>
       /\ ledgerFile'.state # "corrupt"
       /\ PersistedIds(ledgerFile') \in
            {PersistedIds(ledgerFile),
             PersistedIds(ledgerFile) \cup Range(MarkedIds(opArg'))}]_vars

\* C13: load on an account with no ledger file returns an empty tracker (no
\* processed ids, last_updated null) and neither creates nor modifies the
\* file.
C13_LoadOfMissingIsEmpty ==
  [][(lastOp' = "load" /\ callVars' # callVars /\ ledgerFile.state = "missing") =>
       /\ opRes' = [processed_ids |-> <<>>, last_updated |-> NULL]
       /\ ledgerFile' = ledgerFile]_vars

\* load has returned on an account whose ledger file does not exist and
\* whose directory can be read
C13_Witness ==
  /\ lastOp = "load"
  /\ ledgerFile.state = "missing"
  /\ ~readFault
  /\ sameLedger
  /\ opRes = EmptyTracker

\* ------------------------------------------------------------------------
\* Properties of the walk and of the run
\* ------------------------------------------------------------------------
\* ids of the stories of a batch
PksOf(batch) == {batch[i].ig_pk : i \in 1..Len(batch)}

\* what getProcessedIds handed the walk at its start: this.seenPks only
\* grows by the ids of the stories the walk pushes
SeenAtWalkStart == seenPks \ PksOf(stories)

\* C1: the walker meets stories 111, 222, 333 in that order, 111 is in the
\* ledger, 222 is a video whose video and audio streams were captured and
\* mirrored, 333 is an image for which only a poster URL is there.  Then the
\* output batch has exactly two items, 222 as a video with a local artifact
\* reference and 333 as an image whose media URL is the poster URL, and the
\* ledger afterwards holds exactly 111, 222 and 333.
C1_EndToEnd ==
  ( /\ mPc = "done"
    /\ script = <<"111", "222", "333">>
    /\ SeenAtWalkStart = {"111"}
    /\ ~readFault /\ writeFault = "none"
    /\ lastUrl = StoryUrl("333")
    /\ \E i \in 1..Len(stories) :
         /\ stories[i].ig_pk = "222"
         /\ stories[i].original_video_url = V222
         /\ stories[i].original_audio_url = A222
         /\ stories[i].local_video_id # NULL )
  =>
  ( /\ Len(newStories) = 2
    /\ newStories[1].ig_pk = "222"
    /\ newStories[1].is_video
    /\ newStories[1].local_video_id # NULL
    /\ newStories[2].ig_pk = "333"
    /\ ~newStories[2].is_video
    /\ newStories[2].media_url = P333
    /\ PersistedIds(ledgerFile) = {"111", "222", "333"} )

\* C2: a story that is video-flagged, whose id is not yet seen and for which
\* a video URL was captured goes through processStory, and when that
\* returns exactly one item with is_video = true is pushed for it: with the
\* local artifact URL and id when processStory succeeded, with the raw
\* captured video URL and no artifact id when it failed.
C2_VideoStoryAlwaysEmitted ==
  [][ /\ ( /\ wPc = "evaluate" /\ wPc' \notin {"evaluate", "returned"}
           /\ content'.isVideo /\ videoUrl' # NULL
           /\ storyPk # NULL /\ storyPk \notin seenPks )
         => (wPc' = "pipeline" /\ pPc' = "video" /\ pVideoUrl' = videoUrl')
      /\ (wPc = "pipeline" /\ wPc' # "pipeline")
         => /\ Len(stories') = Len(stories) + 1
            /\ SubSeq(stories', 1, Len(stories)) = stories
            /\ LET item == stories'[Len(stories')]
               IN /\ item.ig_pk = storyPk
                  /\ item.is_video
                  /\ item.original_video_url = videoUrl
                  /\ pResult.success =>
                       /\ item.media_url = ServedUrl(LocalUrl(pVideoId))
                       /\ item.local_video_id = pVideoId
                  /\ ~pResult.success =>
                       /\ item.media_url = videoUrl
                       /\ item.local_video_id = NULL
            /\ Cardinality({i \in 1..Len(stories') : stories'[i].ig_pk = storyPk}) = 1
    ]_vars

\* a video story whose reconciliation failed is in the batch main delivers
C2_Witness ==
  /\ mPc = "done"
  /\ \E i \in 1..Len(newStories) :
       /\ newStories[i].is_video
       /\ newStories[i].local_video_id = NULL
       /\ newStories[i].media_url = V222
  /\ ~pResult.success

\* C14: markAsProcessed is called only when the output file holding the
\* batch has been written; the ledger changes in no other step of a run, and
\* what it gains are identifiers of stories in that output file.
C14_OutputBeforeMark ==
  [][/\ (mPc = "mark" /\ mPc' # "mark") =>
          /\ outputFiles # <<>>
          /\ outputFiles[Len(outputFiles)] = newStories
     /\ (ledgerFile' # ledgerFile) =>
          /\ mPc = "mark"
          /\ outputFiles # <<>>
          /\ PersistedIds(ledgerFile') \subseteq
               PersistedIds(ledgerFile)
                 \cup {IdentityKey(st) : st \in Range(outputFiles[Len(outputFiles)])}]_vars

\* the write of the output file has failed with a batch in hand: main stops
\* there, no output file exists
C14_Witness ==
  /\ mPc = "fatal"
  /\ newStories # <<>>
  /\ outputFiles = <<>>
  /\ ledgerFile = OkFile(<<"111">>)

\* C15: when the ledger write inside markAsProcessed fails, the failure
\* reaches the caller: main does not go on to its next step (getStats,
\* sendToApi) as it does after a write that succeeded.
C15_WriteFailureSurfaces ==
  [][(mPc = "mark" /\ mPc' # "mark" /\ writeFault # "none") => mPc' # "send"]_vars

\* C16: while the location has never changed since the viewer was entered,
\* the walk runs at most 4 cycles, and after the 4th it leaves the loop.
C16_BoundedWhenStuck ==
  (pos = 1 /\ storyIndex >= 4) =>
    /\ storyIndex = 4
    /\ wPc \in {"loop", "returned"}
    /\ wPc = "loop" => noContentCount >= 3

\* a walk on a location that never changed: the story was extracted in the
\* first cycle, skipped as seen in the next three, and the walk returned
C16_Witness ==
  /\ wPc = "returned"
  /\ pos = 1
  /\ script # <<>>
  /\ storyIndex = 4
  /\ noContentCount = 3
  /\ Len(wResult) = 1

\* C17: when no story viewer is detected at walk start (the page shows the
\* profile, no story), the walk returns an
\* empty batch at once: no story is evaluated, no ArrowRight is sent, the
\* listener is not registered and processStory is not called.
C17_NoViewerReturnsAtOnce ==
  (script = <<>> /\ wPc # "start") =>
    /\ wPc = "returned"
    /\ wResult = <<>>
    /\ storyIndex = 0
    /\ content = NoContent
    /\ pos = 1
    /\ ~listening
    /\ runs = 0
    /\ pPc = "idle"

\* the walk has returned from a page that is not a story viewer, and main
\* has exited with nothing extracted
C17_Witness ==
  /\ script = <<>>
  /\ wPc = "returned"
  /\ wResult = <<>>
  /\ mPc = "exit_nothing"

\* C18: an exception raised while one story is evaluated is contained at
\* that story: the cycle ends like any other (the walk goes on to advance,
\* or to the pipeline), and the stories already emitted stay in the batch.
C18_EvaluateFailureIsLocal ==
  [][(wPc = "evaluate" /\ wPc' # "evaluate") =>
       /\ wPc' \in {"advance", "pipeline"}
       /\ Len(stories') >= Len(stories)
       /\ SubSeq(stories', 1, Len(stories)) = stories]_vars

\* C19: when the press of ArrowRight is rejected, the walk does not return
\* a normal result to its caller.
C19_RejectedAdvanceSurfaces ==
  [][(wPc \in {"skip", "advance"} /\ wPc' # wPc) => wPc' # "returned"]_vars

\* C20: whenever the walk returns, and so whenever it ends early because of
\* a failure, what it returns is the batch assembled up to then.
C20_PartialBatchReturned ==
  [][(wPc # "returned" /\ wPc' = "returned") => wResult' = stories]_vars

\* ------------------------------------------------------------------------
\* Properties of the classifier
\* ------------------------------------------------------------------------
\* C25 as stated: a URL that contains the audio path marker is classified
\* audio and a URL that contains the video path marker is classified video,
\* whatever else the URL holds.
C25_MarkersDecide ==
  cKind # NULL =>
    /\ cUrl.m78 => cKind = "audio"
    /\ cUrl.m367 => cKind = "video"

\* C25 amended: a URL that contains the audio path marker is classified
\* audio, and a URL that contains the video path marker and not the audio
\* path marker is classified video, whatever else the URL holds.
C25_AudioMarkerFirst ==
  cKind # NULL =>
    /\ cUrl.m78 => cKind = "audio"
    /\ (cUrl.m367 /\ ~cUrl.m78) => cKind = "video"

\* a URL with the video path marker whose efg carries a pure audio tag was
\* classified
C25_Witness ==
  /\ cKind = "video"
  /\ cUrl.m367
  /\ ~cUrl.m78
  /\ cUrl.parses
  /\ cUrl.efg = "json"
  /\ cUrl.tag = {"audio"}

\* C26: a URL with neither path marker is classified audio exactly when
\* its efg parameter is there, decodes to an object whose tag holds the
\* audio hint and neither video-codec hint (in any letter case), and video
\* in every other case; the call always returns one of the two kinds, and
\* the same URL always gets the same kind.
C26_FallbackDecides ==
  [][cKind' # NULL =>
       /\ cKind' \in {"audio", "video"}
       /\ (~cUrl'.m78 /\ ~cUrl'.m367) =>
            (cKind' = "audio" <=>
               /\ cUrl'.parses
               /\ cUrl'.efg = "json"
               /\ cUrl'.tag \cap {"audio", "AUDIO"} # {}
               /\ cUrl'.tag \cap {"vp9", "AVC"} = {})
       /\ (cKind # NULL /\ cUrl' = cUrl) => cKind' = cKind]_vars

\* a URL with neither marker whose tag spells the audio hint in capitals,
\* next to a piece that is no hint, was classified twice
C26_Witness ==
  /\ cKind = "audio"
  /\ ~cUrl.m78
  /\ ~cUrl.m367
  /\ cUrl.tag = {"AUDIO", "aac"}

\* ------------------------------------------------------------------------
\* Properties of the media server
\* ------------------------------------------------------------------------
\* the digits a client writes for an offset
Digits == <<"0", "1", "2", "3">>

\* C21: the range endpoint answers with status 206 only when
\* 0 <= start <= end < fileSize holds for the parsed range, and the
\* Content-Range and Content-Length of every 206 response describe the
\* slice of the file that the body carries.
C21_RangeIsValidated ==
  (sReq.method = "stream" /\ sRes.status = "206") =>
    LET size == SizeOf(sReq.id)
        start == sRes.contentRange[1]
        end == sRes.contentRange[2]
    IN /\ 0 <= start
       /\ start <= end
       /\ end < size
       /\ sRes.contentLength = <<Len(sRes.body)>>

\* C22: for an existing artifact of size N and every range start-end with
\* 0 <= start <= end < N the range endpoint responds 206 with Content-Range
\* bytes start-end/N, Content-Length end-start+1 and exactly the bytes
\* start..end; with no Range header it responds 200 with Content-Length N
\* and the whole file.
C22_ValidRangeIsServed ==
  (sReq.method = "stream" /\ StoredUnder(sReq.id) # {}) =>
    LET N == SizeOf(sReq.id)
    IN /\ \A start \in 0..(N - 1), end \in 0..(N - 1) :
            (start <= end /\ sReq.range = <<Digits[start + 1], Digits[end + 1]>>) =>
              /\ sRes.status = "206"
              /\ sRes.contentRange = <<start, end, N>>
              /\ sRes.contentLength = <<end - start + 1>>
              /\ sRes.body = [i \in 1..(end - start + 1) |-> start + i - 1]
       /\ sReq.range = <<>> =>
            /\ sRes.status = "200"
            /\ sRes.contentLength = <<N>>
            /\ sRes.body = [i \in 1..N |-> i - 1]

\* the middle byte of a three-byte artifact was asked for and served
C22_Witness ==
  /\ sReq.method = "stream"
  /\ sReq.range = <<"1", "1">>
  /\ <<sReq.id, "merged">> \in videoStore
  /\ sRes.status = "206"
  /\ sRes.contentRange = <<1, 1, 3>>
  /\ sRes.body = <<1>>

\* C23: DELETE of an identifier removes exactly the artifact under it and
\* reports 200 when it is there, and reports 404 and changes nothing when
\* it is not; a DELETE, a whole-file fetch and a range fetch of an
\* identifier that is not in the store (so also of one that was deleted)
\* report 404, and no request but a DELETE changes the store.
C23_DeleteIsExactAndIdempotent ==
  [][sReq'.method \in {"list", "fetch", "stream", "delete"} =>
       LET id == sReq'.id
           there == {f \in videoStore : f[1] = id}
       IN /\ sReq'.method = "delete" =>
               IF there # {}
                 THEN sRes'.status = "200" /\ videoStore' = videoStore \ there
                 ELSE sRes'.status = "404" /\ videoStore' = videoStore
          /\ sReq'.method # "delete" => videoStore' = videoStore
          /\ (sReq'.method # "list" /\ there = {}) => sRes'.status = "404"]_vars

\* one of two artifacts was deleted: it is gone and the other is still there
C23_Witness ==
  /\ sReq.method = "delete"
  /\ sReq.id = "uuid1"
  /\ sRes.status = "200"
  /\ videoStore = {<<"uuid2", "video_only">>}

\* ------------------------------------------------------------------------
\* Properties of the artifact store
\* ------------------------------------------------------------------------
\* C24: at every moment the store holds a file under the identifier of a
\* run only if that run has returned success, and no step of processStory
\* takes a file out of the store.
C24_StoreHoldsOnlySuccesses ==
  [][/\ \A f \in videoStore' :
          f[1] = pVideoId' => (pPc' = "returned" /\ pResult'.success)
     /\ videoStore \subseteq videoStore']_vars

\* ------------------------------------------------------------------------
\* Properties of the interceptor and of the walk
\* ------------------------------------------------------------------------
\* the position the viewer was on when url was captured into urls
CapturedWhile(urls, at, url) == at[CHOOSE i \in 1..Len(urls) : urls[i] = url]

\* the URLs the interceptor captured while the viewer was on position p
CapturedOn(p) ==
  {capturedVideos[i] : i \in {j \in 1..Len(capturedVideos) : capturedAt.video[j] = p}}
  \cup
  {capturedAudios[i] : i \in {j \in 1..Len(capturedAudios) : capturedAt.audio[j] = p}}

\* the media requests the interceptor is handed in a step: one the page
\* sends for a story, or the fetch of a download
RequestsOfStep ==
  (IF pending # <<>> /\ pending' = Tail(pending) THEN {Head(pending)} ELSE {})
  \cup (IF pPc = "video" /\ pPc' # "video" THEN {pVideoUrl} ELSE {})
  \cup (IF pPc = "audio" /\ pPc' # "audio" THEN {pAudioUrl} ELSE {})

\* C27: the video and audio URL that a video story is reported with (the
\* snapshot of the slot taken when the story is evaluated) were captured
\* while that story was the current one, never while an earlier story was,
\* whether the earlier cycles evaluated their story or skipped it.
C27_NoStaleCapture ==
  [][(wPc = "evaluate" /\ wPc' = "pipeline") =>
       /\ videoUrl' # NULL =>
            CapturedWhile(capturedVideos, capturedAt.video, videoUrl') = pos
       /\ audioUrl' # NULL =>
            CapturedWhile(capturedAudios, capturedAt.audio, audioUrl') = pos]_vars

\* C28: every matching request puts its normalized URL into the slot under
\* its kind, also when the same URL was requested earlier in the walk.
C28_EveryRequestOverwrites ==
  [][listening =>
       \A u \in RequestsOfStep :
         (UrlTable[u].cdn /\ UrlTable[u].mp4) =>
           IF isAudioOnly(CleanUrl(u))
             THEN currentStoryMedia'.audio = CleanUrl(u)
             ELSE currentStoryMedia'.video = CleanUrl(u)]_vars

\* C29: the media URL of an image item is a URL captured while its story
\* was the current one or, when there is none, the poster read from the
\* DOM if that is no blob: handle; when neither is there, no item is pushed
\* and the idle counter goes up by one.
C29_ImageUrlFromOwnCycle ==
  [][(wPc = "evaluate" /\ wPc' = "advance" /\ storyPk # NULL /\ ~content'.isVideo
        /\ storyPk \notin seenPks) =>
       LET own == CapturedOn(pos)
           poster == content'.posterUrl
           usable == poster # NULL /\ ~IsBlob(poster)
       IN IF own = {} /\ ~usable
            THEN stories' = stories /\ noContentCount' = noContentCount + 1
            ELSE /\ Len(stories') = Len(stories) + 1
                 /\ LET item == stories'[Len(stories')]
                    IN /\ item.ig_pk = storyPk
                       /\ IF own # {} THEN item.media_url \in own
                                      ELSE item.media_url = poster]_vars

C31_DoneOnlyAfterThreeIdle ==
  [][/\ (wPc = "loop" /\ wPc' = "returned") => noContentCount >= 3
     /\ noContentCount' \in {noContentCount, noContentCount + 1, 0}
     /\ (wPc = "cycle" /\ wPc' # "cycle") =>
          IF PageUrl # lastUrl \/ storyIndex = 0
            THEN noContentCount' = 0
            ELSE noContentCount' = noContentCount + 1
     /\ (noContentCount' = 0 /\ noContentCount > 0) =>
          (wPc = "cycle" /\ PageUrl # lastUrl)]_vars

\* the viewer went from 222 to 333 and stayed there: the walk has left its
\* loop, with both stories in the batch, after three cycles on 333 that
\* found the location unchanged
C31_Witness ==
  /\ wPc = "returned"
  /\ script = <<"222", "333">>
  /\ pos = 2
  /\ wResult = stories
  /\ Len(stories) = 2
  /\ noContentCount = 3
  /\ storyIndex = 5
  /\ lastUrl = PageUrl

\* C32: when the story that is evaluated shows a video and no video URL
\* was captured while it was the current story, the cycle pushes nothing,
\* adds nothing to the seen ids, does not start processStory and increments
\* the idle counter by one.
C32_VideoWithoutCaptureIsIdle ==
  [][(/\ wPc = "evaluate"
      /\ wPc' \notin {"evaluate", "returned"}
      /\ content'.isVideo
      /\ \A i \in 1..Len(capturedVideos) : capturedAt.video[i] # pos) =>
       /\ stories' = stories
       /\ seenPks' = seenPks
       /\ runs' = runs
       /\ pPc' = pPc
       /\ noContentCount' = noContentCount + 1]_vars

\* C33: processStory runs only while the walk waits for it; the walk goes
\* on from the wait only when processStory has returned, and then by
\* pushing the item of the story; ArrowRight is pressed, and the viewer
\* moves, only while no processStory call is in progress.
C33_PipelineIsAwaited ==
  [][/\ pPc' \notin {"idle", "returned"} => wPc' = "pipeline"
     /\ (wPc = "pipeline" /\ wPc' # "pipeline") =>
          /\ pPc = "returned"
          /\ wPc' = "advance"
          /\ Len(stories') = Len(stories) + 1
          /\ stories'[Len(stories')].ig_pk = storyPk
          /\ UNCHANGED <<pos, pending>>
     /\ (wPc \in {"skip", "advance"} /\ wPc' # wPc) => pPc \in {"idle", "returned"}
     /\ pos' # pos => (wPc \in {"skip", "advance"} /\ pPc \in {"idle", "returned"})]_vars

\* video story 222 went through processStory, its item is in the batch, and
\* only then the viewer was moved on to 333
C33_Witness ==
  /\ script = <<"222", "333">>
  /\ pos = 2
  /\ wPc = "loop"
  /\ storyIndex = 1
  /\ pPc = "returned"
  /\ runs = 1
  /\ Len(stories) = 1
  /\ stories[1].ig_pk = "222"

\* ------------------------------------------------------------------------
\* Properties of login
\* ------------------------------------------------------------------------
\* C34: page.goto is called at most three times, and only while no call
\* has succeeded; when three calls have failed login does none of its
\* further steps, leaves the scraper not logged in and ends by throwing.
C34_ThreeAttemptsThenError ==
  [][/\ gotoCalls' <= 3
     /\ gotoCalls' # gotoCalls =>
          (gotoCalls' = gotoCalls + 1 /\ ~gotoLoaded /\ gotoCalls < 3)
     /\ gotoLoaded => (gotoLoaded' /\ gotoCalls' = gotoCalls)
     /\ (gotoCalls' = 3 /\ ~gotoLoaded') =>
          /\ lPc' \in {"goto", "catch", "returned"}
          /\ ~isLoggedIn'
          /\ lPc' = "returned" => lOut' = "throws"]_vars

\* page.goto failed three times and login has thrown
C34_Witness ==
  /\ lPc = "returned"
  /\ gotoCalls = 3
  /\ ~gotoLoaded
  /\ ~isLoggedIn
  /\ lOut = "throws"

\* ------------------------------------------------------------------------
\* Fetches beside deletions
\* ------------------------------------------------------------------------
\* C37: a fetch or a range fetch that DELETE requests run beside ends
\* either with 404 or with a 200/206 answer whose body has the declared
\* Content-Length; it never ends with 500 or with a head that no body
\* follows.
C37_FetchBesideDelete ==
  fPc = "done" =>
    \/ fRes = NotFound
    \/ /\ fRes.status \in {"200", "206"}
       /\ fRes.contentLength = Num(Len(fRes.body))

\* ------------------------------------------------------------------------
\* The end of a run
\* ------------------------------------------------------------------------
\* C35: the batch is delivered to the API only after its identifiers are
\* in the ledger, and a delivery that fails leaves them there: the ledger
\* file is not touched and holds every identifier of the batch.
C35_MarkedBeforeDelivery ==
  [][/\ apiReceived' # apiReceived =>
          /\ mPc = "send"
          /\ Range(MarkedIds(newStories)) \subseteq PersistedIds(ledgerFile)
     /\ (mPc = "send" /\ mPc' = "done" /\ apiReceived' = apiReceived) =>
          /\ ledgerFile' = ledgerFile
          /\ Range(MarkedIds(newStories)) \subseteq PersistedIds(ledgerFile')]_vars

\* ------------------------------------------------------------------------
\* Snapshot and reset of the slot
\* ------------------------------------------------------------------------
\* C36: whatever the order of request events and walker steps, a URL that
\* leaves the slot was either replaced by a later capture of its kind or
\* is in the snapshot the walker took in the same step: the reset erases
\* nothing the snapshot has not seen.
C36_ResetErasesOnlySnapshot ==
  [][/\ (currentStoryMedia.video # NULL
          /\ currentStoryMedia'.video # currentStoryMedia.video) =>
            \/ currentStoryMedia'.video # NULL
            \/ wPc = "evaluate" /\ videoUrl' = currentStoryMedia.video
     /\ (currentStoryMedia.audio # NULL
          /\ currentStoryMedia'.audio # currentStoryMedia.audio) =>
            \/ currentStoryMedia'.audio # NULL
            \/ wPc = "evaluate" /\ audioUrl' = currentStoryMedia.audio]_vars

\* the snapshot took a video and an audio URL out of the slot while a
\* request of the page was still on its way
C36_Witness ==
  /\ wPc = "pipeline"
  /\ videoUrl = V222
  /\ audioUrl = A222
  /\ currentStoryMedia = EmptySlot
  /\ pending # <<>>

\* ------------------------------------------------------------------------
\* The last signals of a walk
\* ------------------------------------------------------------------------
\* C39: once the idle counter is 3 the walker presses ArrowRight no more:
\* the viewer is not moved, the skip branch is not left through its press,
\* the end of a cycle goes straight back to the loop test; and Escape is
\* pressed only when the walk has returned.
C39_NoAdvanceOnceIdle ==
  [][/\ noContentCount >= 3 => pos' = pos
     /\ wPc' = "skip" => noContentCount' < 3
     /\ (wPc = "advance" /\ noContentCount >= 3 /\ wPc' # wPc) => wPc' = "loop"
     /\ (mPc = "extract" /\ mPc' # mPc) => wPc = "returned"]_vars

\* a walk ended by three idle cycles with the viewer still on a story,
\* and main has dismissed the viewer and gone on with the batch
C39_Witness ==
  /\ wPc = "returned"
  /\ noContentCount = 3
  /\ pos <= Len(script)
  /\ mPc = "filter"
  /\ Len(allStories) > 0

\* ------------------------------------------------------------------------
\* Runs with nothing to deliver
\* ------------------------------------------------------------------------
\* C40: main exits after extractStories exactly when the batch is empty,
\* and after the filter exactly when no story is new; such a run is over,
\* and it has written no output file, left the ledger file as it found it
\* and sent nothing to the API. Ledger, output files and API change only
\* in runs that have a new story.
C40_NothingToDoChangesNothing ==
  [][/\ (mPc = "extract" /\ mPc' \notin {"extract", "fatal"}) =>
          (mPc' = "exit_nothing" <=> wResult = <<>>)
     /\ (mPc = "filter" /\ mPc' # mPc) =>
          (mPc' = "exit_nothing_new" <=> newStories' = <<>>)
     /\ mPc \in {"exit_nothing", "exit_nothing_new"} => mPc' = mPc
     /\ mPc' \in {"exit_nothing", "exit_nothing_new"} =>
          /\ ledgerFile' = opView[1]
          /\ outputFiles' = <<>>
          /\ apiReceived' = <<>>
     /\ (\/ ledgerFile' # ledgerFile
         \/ outputFiles' # outputFiles
         \/ apiReceived' # apiReceived) =>
          (Len(allStories) > 0 /\ Len(newStories) > 0)]_vars

\* the walk returned stories, the ledger holds all of them, and main has
\* exited with ledger, output files and API as they were
C40_Witness ==
  /\ mPc = "exit_nothing_new"
  /\ Len(allStories) > 0
  /\ newStories = <<>>
  /\ ledgerFile = opView[1]
  /\ outputFiles = <<>>
  /\ apiReceived = <<>>

\* ------------------------------------------------------------------------
\* Termination of the walk
\* ------------------------------------------------------------------------
\* C38: when every browser operation returns, the walk returns. The
\* location changes with the position of the viewer only, and the walk
\* spends at most 4 cycles per position: once the location stays the same
\* the walk ends within 4 cycles, whether they skip, emit or find nothing.
C38_WalkTerminates ==
  /\ [](storyIndex <= 4 * pos)
  /\ <>(wPc = "returned")

\* a walk over three stories that the viewer went through to its end has
\* returned after idle cycles on the last location
C38_Witness ==
  /\ wPc = "returned"
  /\ Len(script) = 3
  /\ pos = 4
  /\ noContentCount = 3
  /\ storyIndex > 4

====
